---- MODULE Spec2Model ----
EXTENDS Integers, Sequences, FiniteSets, TLC

(***************************************************************************)
(* Mode stack, dispatch router and scoped mode primitives of               *)
(* torch/utils/_python_dispatch.py.                                        *)
(***************************************************************************)

\* Python's None: an absent key, an empty slot, "no value returned".
None == "None"

\* Mode objects (references; two distinct identities are enough to tell
\* any reordering apart).
Modes == {"m1", "m2"}

\* The modes the reserved slots hold: a proxy-tracing mode in the one, a
\* fake-execution mode in the other.
ProxyModes == {"pm"}

FakeModes == {"fm"}

\* Functionality dispatch keys a mode may be tagged with (_dispatch_key).
Keys == {"K1", "K2"}

\* Backend components of a functionality key.
Backends == {"CPU", "CUDA"}

\* Operator overloads whose dispatch decisions may be cached.
Ops == {"op1", "op2"}

\* The error a pop beyond the stack depth fails with.
EmptyStackError == "EmptyStackError"

\* At most MaxModes modes are on the stacks (untagged and keyed) at once.
MaxModes == 2

\* At most MaxScopes scoped regions (with-blocks) are open at once.
MaxScopes == 2

VARIABLES
    torch_dispatch_stack,   \* the untagged stack (torch._C dispatch stack)
    mode_stack_per_key,     \* one stack per dispatch key (torch._ops)
    proxy_tensor_mode,      \* the reserved proxy-tracing slot
    fake_tensor_mode,       \* the reserved fake-execution slot
    dispatch_cache,         \* cached (operator, backend key) dispatch decisions
    cached_ops,             \* operators that cached a decision so far
    scopes,                 \* the open with-blocks, outermost first
    res,                    \* the last call: its arguments, result and surroundings
    aliasing,               \* a call of the aliasing functions: inputs and outcome
    subclass,               \* a call of transform_subclass: inputs and outcome
    cuda,                   \* the CUDA streams and the test program using them
    cond_call               \* a call of a cond implementation: inputs and outcome

vars == <<torch_dispatch_stack, mode_stack_per_key, proxy_tensor_mode,
          fake_tensor_mode, dispatch_cache, cached_ops, scopes, res,
          aliasing, subclass, cuda, cond_call>>

\* The variables the mode-stack operations do not touch.
others == <<aliasing, subclass, cuda, cond_call>>

\* No call of the aliasing functions or of transform_subclass is under way.
NoCall == [pc |-> "none"]

\* The mode-stack state as one value, so that the functions of the module
\* can be written as functions from state to state.
Cur ==
    [stack |-> torch_dispatch_stack,
     keyed |-> mode_stack_per_key,
     proxy |-> proxy_tensor_mode,
     fake  |-> fake_tensor_mode,
     cache |-> dispatch_cache,
     ops   |-> cached_ops]

EmptyState ==
    [stack |-> <<>>,
     keyed |-> [k \in Keys |-> <<>>],
     proxy |-> None,
     fake  |-> None,
     cache |-> {},
     ops   |-> {}]

Install(S) ==
    /\ torch_dispatch_stack' = S.stack
    /\ mode_stack_per_key' = S.keyed
    /\ proxy_tensor_mode' = S.proxy
    /\ fake_tensor_mode' = S.fake
    /\ dispatch_cache' = S.cache
    /\ cached_ops' = S.ops

\* The stack selected by key k: the untagged stack when the key is absent.
Selected(S, k) == IF k = None THEN S.stack ELSE S.keyed[k]

\* The stacks and slots (not the cache) of a state.
Stacks(S) == <<S.stack, S.keyed, S.proxy, S.fake>>

Front(s) == SubSeq(s, 1, Len(s) - 1)

Last(s) == s[Len(s)]

----------------------------------------------------------------------------
(* Primitives imported from torch._C and torch._ops. *)

_len_torch_dispatch_stack(S) == Len(S.stack)

\* 0-based index, as in the source.
_get_dispatch_stack_at(S, i) == S.stack[i + 1]

_push_on_torch_dispatch_stack(S, mode) ==
    [S EXCEPT !.stack = Append(@, mode)]

_pop_torch_dispatch_stack(S) ==
    IF Len(S.stack) = 0
    THEN [S |-> S, ret |-> None, err |-> EmptyStackError]
    ELSE [S |-> [S EXCEPT !.stack = Front(@)], ret |-> Last(S.stack), err |-> None]

push_mode_for_key(S, k, mode) ==
    [S EXCEPT !.keyed[k] = Append(@, mode)]

pop_mode_for_key(S, k) ==
    IF Len(S.keyed[k]) = 0
    THEN [S |-> S, ret |-> None, err |-> EmptyStackError]
    ELSE [S |-> [S EXCEPT !.keyed[k] = Front(@)], ret |-> Last(S.keyed[k]), err |-> None]

_functionality_to_backend_keys(k) == {<<k, b>> : b \in Backends}

get_cached_ops(S) == S.ops

\* for op in ops: for key in ks: op._uncache_dispatch(key)
_uncache_dispatch(S, ops, ks) ==
    [S EXCEPT !.cache = @ \ (ops \X ks)]

_get_proxy_tensor_mode(S) == S.proxy

_get_fake_tensor_mode(S) == S.fake

_set_proxy_tensor_mode(S, mode) == [S EXCEPT !.proxy = mode]

_set_fake_tensor_mode(S, mode) == [S EXCEPT !.fake = mode]

_unset_proxy_tensor_mode(S) == [S |-> [S EXCEPT !.proxy = None], ret |-> S.proxy]

_unset_fake_tensor_mode(S) == [S |-> [S EXCEPT !.fake = None], ret |-> S.fake]

----------------------------------------------------------------------------
(* The functions of torch/utils/_python_dispatch.py. *)

\* As _get_current_dispatch_mode, but an empty untagged stack gives None
\* without a look at the reserved slots.
_get_current_dispatch_mode_stack_only(S) ==
    LET stack_len == _len_torch_dispatch_stack(S)
    IN  IF stack_len > 0 THEN _get_dispatch_stack_at(S, stack_len - 1) ELSE None

\* As _get_current_dispatch_mode, but the fake slot is looked at before the
\* proxy slot.
_get_current_dispatch_mode_fake_first(S) ==
    LET stack_len == _len_torch_dispatch_stack(S)
        mb_fake == _get_fake_tensor_mode(S)
    IN  IF stack_len > 0 THEN _get_dispatch_stack_at(S, stack_len - 1)
        ELSE IF mb_fake # None THEN mb_fake
        ELSE _get_proxy_tensor_mode(S)

_get_current_dispatch_mode(S) ==
    LET stack_len == _len_torch_dispatch_stack(S)
        mb_proxy == _get_proxy_tensor_mode(S)
    IN  IF stack_len > 0 THEN _get_dispatch_stack_at(S, stack_len - 1)
        ELSE IF mb_proxy # None THEN mb_proxy
        ELSE _get_fake_tensor_mode(S)

\* As _get_current_dispatch_mode_stack, but the user modes are listed from
\* the top of the stack down.
_get_current_dispatch_mode_stack_top_first(S) ==
    LET stack_len == _len_torch_dispatch_stack(S)
        user_modes == [i \in 1..stack_len |-> _get_dispatch_stack_at(S, stack_len - i)]
        mb_proxy == IF _get_proxy_tensor_mode(S) = None THEN <<>>
                    ELSE <<_get_proxy_tensor_mode(S)>>
        mb_fake == IF _get_fake_tensor_mode(S) = None THEN <<>>
                   ELSE <<_get_fake_tensor_mode(S)>>
    IN  user_modes \o mb_proxy \o mb_fake

_get_current_dispatch_mode_stack(S) ==
    LET stack_len == _len_torch_dispatch_stack(S)
        user_modes == [i \in 1..stack_len |-> _get_dispatch_stack_at(S, i - 1)]
        mb_proxy == IF _get_proxy_tensor_mode(S) = None THEN <<>>
                    ELSE <<_get_proxy_tensor_mode(S)>>
        mb_fake == IF _get_fake_tensor_mode(S) = None THEN <<>>
                   ELSE <<_get_fake_tensor_mode(S)>>
    IN  user_modes \o mb_proxy \o mb_fake

\* As _push_mode, but the key is dropped: every mode goes on the untagged stack.
_push_mode_key_dropped(S, mode, k) ==
    _push_on_torch_dispatch_stack(S, mode)

\* As _push_mode, but only one backend key of the functionality is uncached.
_push_mode_uncache_one(S, mode, k) ==
    IF k # None
    THEN push_mode_for_key(_uncache_dispatch(S, get_cached_ops(S), {<<k, "CPU">>}),
                           k, mode)
    ELSE _push_on_torch_dispatch_stack(S, mode)

_push_mode(S, mode, k) ==
    IF k # None
    THEN LET ks == _functionality_to_backend_keys(k)
         IN  push_mode_for_key(_uncache_dispatch(S, get_cached_ops(S), ks), k, mode)
    ELSE _push_on_torch_dispatch_stack(S, mode)

\* As _pop_mode, but a keyed pop that finds its stack empty falls back to the
\* untagged stack.
_pop_mode_fallback(S, k) ==
    IF k # None /\ Len(S.keyed[k]) > 0
    THEN pop_mode_for_key(S, k)
    ELSE _pop_torch_dispatch_stack(S)

\* As _pop_mode, but the key is dropped: every pop is of the untagged stack.
_pop_mode_key_dropped(S, k) ==
    _pop_torch_dispatch_stack(S)

_pop_mode(S, k) ==
    IF k # None
    THEN pop_mode_for_key(S, k)
    ELSE _pop_torch_dispatch_stack(S)


\* old_modes = [_pop_mode() for _ in range(mode_len)]
RECURSIVE PopModes(_, _)
PopModes(S, n) ==
    IF n = 0 THEN [S |-> S, old_modes |-> <<>>]
    ELSE LET r == _pop_mode(S, None)
             rest == PopModes(r.S, n - 1)
         IN  [S |-> rest.S, old_modes |-> <<r.ret>> \o rest.old_modes]

\* for mode in reversed(old_modes): _push_mode(mode)
RECURSIVE PushReversed(_, _)
PushReversed(S, old_modes) ==
    IF old_modes = <<>> THEN S
    ELSE PushReversed(_push_mode(S, Last(old_modes), None), Front(old_modes))

\* As _disable_current_modes_enter, but old_modes lists the popped modes
\* from the bottom of the stack up.
_disable_current_modes_enter_bottom_first(S) ==
    LET mode_len == _len_torch_dispatch_stack(S)
        popped == PopModes(S, mode_len)
        S1 == popped.S
        p == _unset_proxy_tensor_mode(S1)
        mb_proxy == IF _get_proxy_tensor_mode(S1) = None THEN <<>> ELSE <<p.ret>>
        S2 == IF _get_proxy_tensor_mode(S1) = None THEN S1 ELSE p.S
        f == _unset_fake_tensor_mode(S2)
        mb_fake == IF _get_fake_tensor_mode(S2) = None THEN <<>> ELSE <<f.ret>>
        S3 == IF _get_fake_tensor_mode(S2) = None THEN S2 ELSE f.S
    IN  [S |-> S3, old_modes |-> S.stack, mb_proxy |-> mb_proxy, mb_fake |-> mb_fake]

\* _disable_current_modes up to its yield.
_disable_current_modes_enter(S) ==
    LET mode_len == _len_torch_dispatch_stack(S)
        popped == PopModes(S, mode_len)
        S1 == popped.S
        p == _unset_proxy_tensor_mode(S1)
        mb_proxy == IF _get_proxy_tensor_mode(S1) = None THEN <<>> ELSE <<p.ret>>
        S2 == IF _get_proxy_tensor_mode(S1) = None THEN S1 ELSE p.S
        f == _unset_fake_tensor_mode(S2)
        mb_fake == IF _get_fake_tensor_mode(S2) = None THEN <<>> ELSE <<f.ret>>
        S3 == IF _get_fake_tensor_mode(S2) = None THEN S2 ELSE f.S
    IN  [S |-> S3, old_modes |-> popped.old_modes, mb_proxy |-> mb_proxy,
         mb_fake |-> mb_fake]

\* As _disable_current_modes_exit, but old_modes is pushed back in the order
\* it was popped in.
_disable_current_modes_exit_unreversed(S, old_modes, mb_proxy, mb_fake) ==
    LET S1 == PushReversed(S, [i \in 1..Len(old_modes) |->
                                   old_modes[Len(old_modes) + 1 - i]])
        S2 == IF mb_proxy # <<>> THEN _set_proxy_tensor_mode(S1, mb_proxy[1]) ELSE S1
    IN  IF mb_fake # <<>> THEN _set_fake_tensor_mode(S2, mb_fake[1]) ELSE S2

\* The finally block of _disable_current_modes.
_disable_current_modes_exit(S, old_modes, mb_proxy, mb_fake) ==
    LET S1 == PushReversed(S, old_modes)
        S2 == IF mb_proxy # <<>> THEN _set_proxy_tensor_mode(S1, mb_proxy[1]) ELSE S1
    IN  IF mb_fake # <<>> THEN _set_fake_tensor_mode(S2, mb_fake[1]) ELSE S2

----------------------------------------------------------------------------
(* Calls and scopes. *)

\* The record of a call: op(key, mode) returned ret (a mode or None) or rets
\* (a list of modes) or failed with err; `before` is the state the call
\* started in; for the exit of a scope, `entry` is the state the scope was
\* entered in, `raised` whether its body ended with an exception.
Call(op, key, mode, ret, rets, err, raised, before, entry) ==
    [op |-> op, key |-> key, mode |-> mode, ret |-> ret, rets |-> rets,
     err |-> err, raised |-> raised, before |-> before, entry |-> entry]

\* An open with-block.  kind "mode": `with mode:` (self is the mode);
\* kind "tmp": `with _pop_mode_temporarily(key) as old:`;
\* kind "disable": `with _disable_current_modes():`.
Scope(kind, key, self, old, old_modes, mb_proxy, mb_fake, entry) ==
    [kind |-> kind, key |-> key, self |-> self, old |-> old,
     old_modes |-> old_modes, mb_proxy |-> mb_proxy, mb_fake |-> mb_fake,
     entry |-> entry]

NumModes(S) ==
    Len(S.stack) + Len(S.keyed["K1"]) + Len(S.keyed["K2"])

Idle == scopes = <<>>

CanOpen == Len(scopes) < MaxScopes

\* The innermost scope is left, its body having returned or raised; what is
\* raised is caught outside the scope or leaves the enclosing scope in turn.
LeaveScope ==
    /\ scopes # <<>>
    /\ scopes' = Front(scopes)

Init ==
    /\ torch_dispatch_stack = <<>>
    /\ mode_stack_per_key = [k \in Keys |-> <<>>]
    /\ proxy_tensor_mode = None
    /\ fake_tensor_mode = None
    /\ dispatch_cache = {}
    /\ cached_ops = {}
    /\ scopes = <<>>
    /\ res = Call("init", None, None, None, <<>>, None, FALSE, EmptyState, EmptyState)
    /\ aliasing = NoCall
    /\ subclass = NoCall
    /\ cuda = NoCall
    /\ cond_call = NoCall

\* A direct call _push_mode(mode, k).
PushMode(mode, k) ==
    /\ Idle
    /\ NumModes(Cur) < MaxModes
    /\ Install(_push_mode(Cur, mode, k))
    /\ UNCHANGED others
    /\ res' = Call("push", k, mode, None, <<>>, None, FALSE, Cur, Cur)
    /\ UNCHANGED scopes

\* A direct call _pop_mode(k); on an empty stack it fails.
PopMode(k) ==
    LET r == _pop_mode(Cur, k)
    IN  /\ Idle
        /\ Install(r.S)
        /\ UNCHANGED others
        /\ res' = Call("pop", k, None, r.ret, <<>>, r.err, FALSE, Cur, Cur)
        /\ UNCHANGED scopes

\* TorchDispatchMode.__enter__
Enter(mode, k) ==
    /\ CanOpen
    /\ NumModes(Cur) < MaxModes
    /\ Install(_push_mode(Cur, mode, k))
    /\ scopes' = Append(scopes, Scope("mode", k, mode, None, <<>>, <<>>, <<>>, Cur))
    /\ UNCHANGED others
    /\ res' = Call("enter", k, mode, mode, <<>>, None, FALSE, Cur, Cur)

\* As Exit, but __exit__ pops without the mode's key.
ExitKeyDropped(raised) ==
    /\ scopes # <<>>
    /\ Last(scopes).kind = "mode"
    /\ LET sc == Last(scopes)
           r == _pop_mode(Cur, None)
       IN  /\ Install(r.S)
           /\ UNCHANGED others
           /\ res' = Call("exit", sc.key, sc.self, r.ret, <<>>, r.err, raised,
                          Cur, sc.entry)
    /\ LeaveScope

\* As Exit, but __exit__ pops only when the body returned normally.
ExitSkipsOnError(raised) ==
    /\ scopes # <<>>
    /\ Last(scopes).kind = "mode"
    /\ LET sc == Last(scopes)
           r == IF raised THEN [S |-> Cur, ret |-> None, err |-> None]
                ELSE _pop_mode(Cur, sc.key)
       IN  /\ Install(r.S)
           /\ UNCHANGED others
           /\ res' = Call("exit", sc.key, sc.self, r.ret, <<>>, r.err, raised,
                          Cur, sc.entry)
    /\ LeaveScope

\* TorchDispatchMode.__exit__
Exit(raised) ==
    /\ scopes # <<>>
    /\ Last(scopes).kind = "mode"
    /\ LET sc == Last(scopes)
           r == _pop_mode(Cur, sc.key)
       IN  /\ Install(r.S)
           /\ UNCHANGED others
           /\ res' = Call("exit", sc.key, sc.self, r.ret, <<>>, r.err, raised,
                          Cur, sc.entry)
    /\ LeaveScope

\* As PopModeTemporarilyEnter, but with the pop inside the try block and
\* old preset to None: a failed pop runs the finally block, which pushes
\* None.
PopModeTemporarilyEnterInTry(k) ==
    LET r == _pop_mode(Cur, k)
    IN  /\ CanOpen
        /\ Install(IF r.err # None THEN _push_mode(Cur, None, k) ELSE r.S)
        /\ UNCHANGED others
        /\ res' = Call("tmp_enter", k, None, r.ret, <<>>, r.err, FALSE, Cur, Cur)
        /\ IF r.err # None
           THEN scopes' = scopes
           ELSE scopes' = Append(scopes, Scope("tmp", k, None, r.ret, <<>>, <<>>,
                                               <<>>, Cur))

\* _pop_mode_temporarily(k) up to its yield; a failing pop opens no scope.
PopModeTemporarilyEnter(k) ==
    LET r == _pop_mode(Cur, k)
    IN  /\ CanOpen
        /\ Install(r.S)
        /\ UNCHANGED others
        /\ res' = Call("tmp_enter", k, None, r.ret, <<>>, r.err, FALSE, Cur, Cur)
        /\ IF r.err # None
           THEN scopes' = scopes
           ELSE scopes' = Append(scopes, Scope("tmp", k, None, r.ret, <<>>, <<>>,
                                               <<>>, Cur))

\* As PopModeTemporarilyExit, but the push is not in a finally block: a
\* body that raises skips it.
PopModeTemporarilyExitNoFinally(raised) ==
    /\ scopes # <<>>
    /\ Last(scopes).kind = "tmp"
    /\ LET sc == Last(scopes)
       IN  /\ Install(IF raised THEN Cur ELSE _push_mode(Cur, sc.old, sc.key))
           /\ UNCHANGED others
           /\ res' = Call("tmp_exit", sc.key, sc.old, None, <<>>, None, raised,
                          Cur, sc.entry)
    /\ LeaveScope

\* The finally block of _pop_mode_temporarily.
PopModeTemporarilyExit(raised) ==
    /\ scopes # <<>>
    /\ Last(scopes).kind = "tmp"
    /\ LET sc == Last(scopes)
       IN  /\ Install(_push_mode(Cur, sc.old, sc.key))
           /\ UNCHANGED others
           /\ res' = Call("tmp_exit", sc.key, sc.old, None, <<>>, None, raised,
                          Cur, sc.entry)
    /\ LeaveScope

DisableCurrentModesEnter ==
    LET d == _disable_current_modes_enter(Cur)
    IN  /\ CanOpen
        /\ Install(d.S)
        /\ scopes' = Append(scopes, Scope("disable", None, None, None, d.old_modes,
                                          d.mb_proxy, d.mb_fake, Cur))
        /\ UNCHANGED others
        /\ res' = Call("disable_enter", None, None, None,
                       d.old_modes \o d.mb_proxy \o d.mb_fake, None, FALSE, Cur, Cur)
    
DisableCurrentModesExit(raised) ==
    /\ scopes # <<>>
    /\ Last(scopes).kind = "disable"
    /\ LET sc == Last(scopes)
       IN  /\ Install(_disable_current_modes_exit(Cur, sc.old_modes, sc.mb_proxy,
                                                  sc.mb_fake))
           /\ UNCHANGED others
           /\ res' = Call("disable_exit", None, None, None, <<>>, None, raised,
                          Cur, sc.entry)
    /\ LeaveScope

\* The owner of a reserved slot installs or removes its mode.
SetProxyTensorMode(mode) ==
    /\ Idle
    /\ Install(_set_proxy_tensor_mode(Cur, mode))
    /\ UNCHANGED others
    /\ res' = Call("set_proxy", None, mode, None, <<>>, None, FALSE, Cur, Cur)
    /\ UNCHANGED scopes

UnsetProxyTensorMode ==
    LET r == _unset_proxy_tensor_mode(Cur)
    IN  /\ Idle
        /\ Install(r.S)
        /\ UNCHANGED others
        /\ res' = Call("unset_proxy", None, None, r.ret, <<>>, None, FALSE, Cur, Cur)
        /\ UNCHANGED scopes

SetFakeTensorMode(mode) ==
    /\ Idle
    /\ Install(_set_fake_tensor_mode(Cur, mode))
    /\ UNCHANGED others
    /\ res' = Call("set_fake", None, mode, None, <<>>, None, FALSE, Cur, Cur)
    /\ UNCHANGED scopes

UnsetFakeTensorMode ==
    LET r == _unset_fake_tensor_mode(Cur)
    IN  /\ Idle
        /\ Install(r.S)
        /\ UNCHANGED others
        /\ res' = Call("unset_fake", None, None, r.ret, <<>>, None, FALSE, Cur, Cur)
        /\ UNCHANGED scopes

\* A call _get_current_dispatch_mode().
GetCurrentDispatchMode ==
    /\ Idle
    /\ UNCHANGED others
    /\ res' = Call("current", None, None, _get_current_dispatch_mode(Cur), <<>>,
                   None, FALSE, Cur, Cur)
    /\ UNCHANGED <<torch_dispatch_stack, mode_stack_per_key, proxy_tensor_mode,
                   fake_tensor_mode, dispatch_cache, cached_ops, scopes>>

\* A call _get_current_dispatch_mode_stack().
GetCurrentDispatchModeStack ==
    /\ Idle
    /\ UNCHANGED others
    /\ res' = Call("current_stack", None, None, None,
                   _get_current_dispatch_mode_stack(Cur), None, FALSE, Cur, Cur)
    /\ UNCHANGED <<torch_dispatch_stack, mode_stack_per_key, proxy_tensor_mode,
                   fake_tensor_mode, dispatch_cache, cached_ops, scopes>>

Next ==
    \/ \E mode \in Modes, k \in Keys \cup {None} : PushMode(mode, k)
    \/ \E k \in Keys \cup {None} : PopMode(k)
    \/ \E mode \in Modes, k \in Keys \cup {None} : Enter(mode, k)
    \/ \E raised \in BOOLEAN : Exit(raised)
    \/ \E k \in Keys \cup {None} : PopModeTemporarilyEnter(k)
    \/ \E raised \in BOOLEAN : PopModeTemporarilyExit(raised)
    \/ DisableCurrentModesEnter
    \/ \E raised \in BOOLEAN : DisableCurrentModesExit(raised)
    \/ \E mode \in ProxyModes : SetProxyTensorMode(mode)
    \/ UnsetProxyTensorMode
    \/ \E mode \in FakeModes : SetFakeTensorMode(mode)
    \/ UnsetFakeTensorMode
    \/ GetCurrentDispatchMode
    \/ GetCurrentDispatchModeStack

Spec == Init /\ [][Next]_vars

----------------------------------------------------------------------------
(* The dispatch cache.  OpOverload caches the decision it computes for a   *)
(* dispatch key on a cache miss, but not while a mode is active for that   *)
(* key (Note [Not Caching Per-Dispatch-Key Mode Handlers]).                *)

CacheDispatch(op, key) ==
    /\ Idle
    /\ <<op, key>> \notin dispatch_cache
    /\ mode_stack_per_key[key[1]] = <<>>
    /\ dispatch_cache' = dispatch_cache \cup {<<op, key>>}
    /\ cached_ops' = cached_ops \cup {op}
    /\ UNCHANGED others
    /\ res' = Call("dispatch", key[1], None, None, <<op, key[2]>>, None, FALSE,
                   Cur, Cur)
    /\ UNCHANGED <<torch_dispatch_stack, mode_stack_per_key, proxy_tensor_mode,
                   fake_tensor_mode, scopes>>

NextCache ==
    \/ \E op \in Ops, k \in Keys, b \in Backends : CacheDispatch(op, <<k, b>>)
    \/ \E mode \in Modes, k \in Keys \cup {None} : PushMode(mode, k)
    \/ \E k \in Keys \cup {None} : PopMode(k)

SpecCache == Init /\ [][NextCache]_vars

----------------------------------------------------------------------------
(* The alias/mutation engine: _correct_storage_aliasing and                *)
(* return_and_correct_aliasing.                                            *)

\* At most MaxArgs arguments in a schema.
MaxArgs == 2

\* At most MaxOuts outputs of a call (and returns in a schema).
MaxOuts == 2

\* The alias sets (alias_info.before_set) of a schema slot: none, a
\* read-only alias, a write alias.  An absent alias_info and an empty
\* before_set are treated alike by the code and are both the empty set here.
AliasSets == {{}, {"a"}, {"a!"}}

\* '!' in name
HasBang(name) == name \in {"a!", "b!"}

\* The operator packets of the splitting special case.
SplitPackets ==
    {"chunk", "tensor_split", "split", "split_with_sizes", "hsplit", "vsplit",
     "dsplit", "unbind"}

\* The kinds of output values: a FunctionalTensor, another tensor subclass
\* with __torch_dispatch__, a tensor without __torch_dispatch__, a value
\* that is no tensor.
OutKinds == {"FunctionalTensor", "WrapperTensor", "TensorNoDispatch", "NonTensor"}

\* isinstance(x, torch.Tensor)
IsTensor(x) == x.kind # "NonTensor"

\* hasattr(x, '__torch_dispatch__')
HasTorchDispatch(x) == x.kind \in {"FunctionalTensor", "WrapperTensor"}

\* The errors of the engine: the failed capability assertion, the failed
\* assertion of the splitting case, set_ called on a value that has none,
\* the unsupported mixed schema, a name that is not defined.
AliasSchemaError == "AliasSchemaError"

AssertionError == "AssertionError"

AttributeError == "AttributeError"

MixedAliasSchemaError == "MixedAliasSchemaError"

NameError == "NameError"

\* Input i: a tensor on a storage of its own, of 6 elements.
ArgTensor(i) ==
    [kind |-> "WrapperTensor", storage |-> [id |-> i, numel |-> 6], shape |-> <<6>>]

\* Output j as computed: a value of the given kind, a tensor being of shape
\* 2 x 2 on a fresh storage of 4 elements.
OutValue(kind, j) ==
    IF kind = "NonTensor"
    THEN [kind |-> kind, storage |-> [id |-> 0, numel |-> 0], shape |-> <<>>]
    ELSE [kind |-> kind, storage |-> [id |-> 100 + j, numel |-> 4], shape |-> <<2, 2>>]

\* ret.set_(arg.untyped_storage()): the tensor becomes the one-dimensional
\* view of the whole storage.
set_(ret, storage) ==
    [ret EXCEPT !.storage = storage, !.shape = <<storage.numel>>]

\* aten.set_.source_Storage_storage_offset(ret, storage, 0, size)
set_source_Storage_storage_offset(ret, storage, size) ==
    [ret EXCEPT !.storage = storage, !.shape = size]

\* The state of a call of _correct_storage_aliasing: the inputs and the
\* outputs so far and the error raised, if any.
Raise(st, err) == [st EXCEPT !.err = err]

\* As alias_storage, but the storage of the output is left alone.
alias_storage_skipped(st, arg, i) ==
    IF ~IsTensor(st.outs[i]) THEN Raise(st, AttributeError) ELSE st

\* alias_storage(arg, ret) for ret = outs[i].
alias_storage(st, arg, i) ==
    LET ret == st.outs[i]
    IN  IF ret.kind = "FunctionalTensor"
        THEN [st EXCEPT !.outs[i] =
                  set_source_Storage_storage_offset(ret, arg.storage, ret.shape)]
        ELSE IF ~IsTensor(ret) THEN Raise(st, AttributeError)
        ELSE [st EXCEPT !.outs[i] = set_(ret, arg.storage)]

is_match(arg, ret) ==
    LET arg_aliases == arg
        out_aliases == ret
    IN  Cardinality(arg_aliases \cap out_aliases) > 0

\* As PairLoop, but with the loop over the returns outside the loop over
\* the arguments.
RECURSIVE PairLoopReturnMajor(_, _, _, _)
PairLoopReturnMajor(func, args, st, p) ==
    LET num_args == Len(func.arguments)
        num_returns == Len(func.returns)
        return_idx == p \div num_args
        arg_idx == p % num_args
    IN  IF st.err # None \/ p >= num_args * num_returns THEN st
        ELSE IF is_match(func.arguments[arg_idx + 1], func.returns[return_idx + 1])
        THEN PairLoopReturnMajor(func, args,
                                 alias_storage(st, args[arg_idx + 1], return_idx + 1),
                                 p + 1)
        ELSE PairLoopReturnMajor(func, args, st, p + 1)

\* The loop over (arg_idx, return_idx), input-major, from pair number p on.
RECURSIVE PairLoop(_, _, _, _)
PairLoop(func, args, st, p) ==
    LET num_args == Len(func.arguments)
        num_returns == Len(func.returns)
        arg_idx == p \div num_returns
        return_idx == p % num_returns
    IN  IF st.err # None \/ p >= num_args * num_returns THEN st
        ELSE IF is_match(func.arguments[arg_idx + 1], func.returns[return_idx + 1])
        THEN PairLoop(func, args, alias_storage(st, args[arg_idx + 1], return_idx + 1),
                      p + 1)
        ELSE PairLoop(func, args, st, p + 1)

\* for o in outs: alias_storage(args[0], o), from output i on.
RECURSIVE SplitLoop(_, _, _)
SplitLoop(args, st, i) ==
    IF st.err # None \/ i > Len(st.outs) THEN st
    ELSE SplitLoop(args, alias_storage(st, args[1], i), i + 1)

\* As _correct_storage_aliasing, without the splitting special case.
_correct_storage_aliasing_no_split(func, args, outs, container) ==
    LET st0 == [args |-> args, outs |-> outs, err |-> None]
    IN  IF \E i \in 1..Len(outs) : IsTensor(outs[i]) /\ ~HasTorchDispatch(outs[i])
        THEN Raise(st0, AliasSchemaError)
        ELSE PairLoop(func, args, st0, 0)

\* As _correct_storage_aliasing, without the assertion on the outputs.
_correct_storage_aliasing_no_assert(func, args, outs, container) ==
    LET st0 == [args |-> args, outs |-> outs, err |-> None]
        st1 == PairLoop(func, args, st0, 0)
    IN  IF st1.err # None THEN st1
        ELSE IF func.overloadpacket \in SplitPackets
        THEN IF container = "list" /\ \A i \in 1..Len(outs) : IsTensor(outs[i])
             THEN SplitLoop(args, st1, 1)
             ELSE Raise(st1, AssertionError)
        ELSE st1

\* As _correct_storage_aliasing, with the assertion on the outputs made
\* after the loop over the pairs instead of before it.
_correct_storage_aliasing_check_late(func, args, outs, container) ==
    LET st0 == [args |-> args, outs |-> outs, err |-> None]
        st1 == PairLoop(func, args, st0, 0)
    IN  IF st1.err # None THEN st1
        ELSE IF \E i \in 1..Len(outs) : IsTensor(outs[i]) /\ ~HasTorchDispatch(outs[i])
        THEN Raise(st1, AliasSchemaError)
        ELSE IF func.overloadpacket \in SplitPackets
        THEN IF container = "list" /\ \A i \in 1..Len(outs) : IsTensor(outs[i])
             THEN SplitLoop(args, st1, 1)
             ELSE Raise(st1, AssertionError)
        ELSE st1

\* _correct_storage_aliasing(func, args, outs); container is the type of
\* outs, a list or a tuple.
_correct_storage_aliasing(func, args, outs, container) ==
    LET st0 == [args |-> args, outs |-> outs, err |-> None]
        st1 == PairLoop(func, args, st0, 0)
    IN  IF \E i \in 1..Len(outs) : IsTensor(outs[i]) /\ ~HasTorchDispatch(outs[i])
        THEN Raise(st0, AliasSchemaError)
        ELSE IF st1.err # None THEN st1
        ELSE IF func.overloadpacket \in SplitPackets
        THEN IF container = "list" /\ \A i \in 1..Len(outs) : IsTensor(outs[i])
             THEN SplitLoop(args, st1, 1)
             ELSE Raise(st1, AssertionError)
        ELSE st1

\* get_write_alias(x): the write alias of a schema slot, None if it has
\* none; the assertion fails on an alias set of several names.
get_write_alias(x) ==
    IF x = {} THEN [val |-> None, err |-> None]
    ELSE IF Cardinality(x) # 1 THEN [val |-> None, err |-> AssertionError]
    ELSE LET name == CHOOSE n \in x : TRUE
         IN  IF HasBang(name) THEN [val |-> name, err |-> None]
             ELSE [val |-> None, err |-> None]

\* any(get_write_alias(r) is not None for r in returns), from return i on:
\* the generator stops at the first hit and at a failed assertion.
RECURSIVE AnyWrite(_, _)
AnyWrite(returns, i) ==
    IF i > Len(returns) THEN [val |-> FALSE, err |-> None]
    ELSE LET w == get_write_alias(returns[i])
         IN  IF w.err # None THEN [val |-> FALSE, err |-> w.err]
             ELSE IF w.val # None THEN [val |-> TRUE, err |-> None]
             ELSE AnyWrite(returns, i + 1)

\* all(get_write_alias(r) is not None for r in returns), from return i on.
RECURSIVE AllWrite(_, _)
AllWrite(returns, i) ==
    IF i > Len(returns) THEN [val |-> TRUE, err |-> None]
    ELSE LET w == get_write_alias(returns[i])
         IN  IF w.err # None THEN [val |-> FALSE, err |-> w.err]
             ELSE IF w.val = None THEN [val |-> FALSE, err |-> None]
             ELSE AllWrite(returns, i + 1)

\* What a call returns: the object `out` it was given, or nothing.
Returned(what) == [what |-> what]

\* The outcome of return_and_correct_aliasing: the inputs and the outputs
\* after the call, the error raised (None if it returned) and the value
\* returned.
Outcome(st, err, ret) ==
    [args |-> st.args, outs |-> st.outs, err |-> err, ret |-> ret]

\* As return_and_correct_aliasing, but a schema with some write alias is
\* taken for one whose returns are all write aliases.
return_and_correct_aliasing_no_all(func, args, outs, container) ==
    LET st == _correct_storage_aliasing(func, args, outs, container)
        any == AnyWrite(func.returns, 1)
    IN  IF st.err # None THEN Outcome(st, st.err, Returned("nothing"))
        ELSE IF any.err # None THEN Outcome(st, any.err, Returned("nothing"))
        ELSE IF ~any.val THEN Outcome(st, None, Returned("out"))
        ELSE Outcome(st, NameError, Returned("nothing"))

\* As return_and_correct_aliasing, but the outputs are returned as a new list.
return_and_correct_aliasing_copy(func, args, outs, container) ==
    LET st == _correct_storage_aliasing(func, args, outs, container)
        any == AnyWrite(func.returns, 1)
        all == AllWrite(func.returns, 1)
    IN  IF st.err # None THEN Outcome(st, st.err, Returned("nothing"))
        ELSE IF any.err # None THEN Outcome(st, any.err, Returned("nothing"))
        ELSE IF ~any.val THEN Outcome(st, None, Returned("copy"))
        ELSE IF all.err # None THEN Outcome(st, all.err, Returned("nothing"))
        ELSE IF ~all.val THEN Outcome(st, MixedAliasSchemaError, Returned("nothing"))
        ELSE Outcome(st, NameError, Returned("nothing"))

\* As return_and_correct_aliasing, but the write markers of the returns are
\* looked at before the storages are fixed up.
return_and_correct_aliasing_markers_first(func, args, outs, container) ==
    LET st0 == [args |-> args, outs |-> outs, err |-> None]
        st == _correct_storage_aliasing(func, args, outs, container)
        any == AnyWrite(func.returns, 1)
        all == AllWrite(func.returns, 1)
    IN  IF any.err # None THEN Outcome(st0, any.err, Returned("nothing"))
        ELSE IF any.val /\ all.err # None THEN Outcome(st0, all.err, Returned("nothing"))
        ELSE IF any.val /\ ~all.val
        THEN Outcome(st0, MixedAliasSchemaError, Returned("nothing"))
        ELSE IF st.err # None THEN Outcome(st, st.err, Returned("nothing"))
        ELSE IF ~any.val THEN Outcome(st, None, Returned("out"))
        ELSE Outcome(st, NameError, Returned("nothing"))

\* return_and_correct_aliasing(func, args, out), outs being out or [out].
\* With write aliases on all returns the code calls get_arg_idx_from_alias,
\* a name the module does not define.
return_and_correct_aliasing(func, args, outs, container) ==
    LET st == _correct_storage_aliasing(func, args, outs, container)
        any == AnyWrite(func.returns, 1)
        all == AllWrite(func.returns, 1)
    IN  IF st.err # None THEN Outcome(st, st.err, Returned("nothing"))
        ELSE IF any.err # None THEN Outcome(st, any.err, Returned("nothing"))
        ELSE IF ~any.val THEN Outcome(st, None, Returned("out"))
        ELSE IF all.err # None THEN Outcome(st, all.err, Returned("nothing"))
        ELSE IF ~all.val THEN Outcome(st, MixedAliasSchemaError, Returned("nothing"))
        ELSE Outcome(st, NameError, Returned("nothing"))

\* The operator packets called: the splitting ones and one that is not.
Packets == SplitPackets \cup {"add"}

\* A call: a schema, one input per argument, and the outputs computed, in a
\* list or a tuple.
AliasCall(func, kinds, container) ==
    [pc |-> "ready", func |-> func,
     args |-> [i \in 1..Len(func.arguments) |-> ArgTensor(i)],
     outs |-> [j \in 1..Len(kinds) |-> OutValue(kinds[j], j)],
     container |-> container, fn |-> "none",
     result |-> Outcome([args |-> <<>>, outs |-> <<>>], None, Returned("nothing"))]

\* The calls: 1..MaxArgs arguments and 1..MaxOuts returns, each with an
\* alias set, and one output per return; a splitting operator has one
\* return, a list or tuple of 1..MaxOuts outputs.
AliasCalls(call) ==
    \E packet \in Packets, na \in 1..MaxArgs, nr \in 1..MaxOuts, n \in 1..MaxOuts,
       container \in {"list", "tuple"} :
        /\ packet \in SplitPackets => nr = 1
        /\ packet \notin SplitPackets => (n = nr /\ container = "list")
        /\ \E a \in [1..na -> AliasSets], r \in [1..nr -> AliasSets],
              kinds \in [1..n -> OutKinds] :
               call = AliasCall([arguments |-> a, returns |-> r,
                                 overloadpacket |-> packet], kinds, container)

InitAlias ==
    /\ torch_dispatch_stack = <<>>
    /\ mode_stack_per_key = [k \in Keys |-> <<>>]
    /\ proxy_tensor_mode = None
    /\ fake_tensor_mode = None
    /\ dispatch_cache = {}
    /\ cached_ops = {}
    /\ scopes = <<>>
    /\ res = Call("init", None, None, None, <<>>, None, FALSE, EmptyState, EmptyState)
    /\ subclass = NoCall
    /\ cuda = NoCall
    /\ cond_call = NoCall
    /\ AliasCalls(aliasing)

modeVars == <<torch_dispatch_stack, mode_stack_per_key, proxy_tensor_mode,
              fake_tensor_mode, dispatch_cache, cached_ops, scopes, res>>

\* A call _correct_storage_aliasing(func, args, outs).
CorrectStorageAliasing ==
    /\ aliasing.pc = "ready"
    /\ LET st == _correct_storage_aliasing(aliasing.func, aliasing.args,
                                           aliasing.outs, aliasing.container)
       IN  aliasing' = [aliasing EXCEPT !.pc = "done", !.fn = "fix",
                            !.result = Outcome(st, st.err, Returned("nothing"))]
    /\ UNCHANGED <<modeVars, subclass, cuda, cond_call>>

\* A call return_and_correct_aliasing(func, args, out).
ReturnAndCorrectAliasing ==
    /\ aliasing.pc = "ready"
    /\ aliasing' = [aliasing EXCEPT !.pc = "done", !.fn = "return",
                        !.result = return_and_correct_aliasing(
                            aliasing.func, aliasing.args, aliasing.outs,
                            aliasing.container)]
    /\ UNCHANGED <<modeVars, subclass, cuda, cond_call>>

NextAlias ==
    \/ CorrectStorageAliasing
    \/ ReturnAndCorrectAliasing

SpecAlias == InitAlias /\ [][NextAlias]_vars

----------------------------------------------------------------------------
(* Properties. *)

\* The top of a stack, None when it is empty.
TopOf(s) == IF s = <<>> THEN None ELSE Last(s)

PushOps == {"push", "enter", "tmp_exit"}

PopOps == {"pop", "exit", "tmp_enter"}

\* C1. Stack discipline: when a `with mode:` block closes (its body made
\* only of properly nested scopes), the pop of its exit succeeds and returns
\* the mode pushed at entry, the selected stack is what it was before the
\* block was entered, and so is the mode _get_current_dispatch_mode returns
\* for an untagged mode.
C1_StackDiscipline ==
    res.op = "exit" =>
        /\ res.err = None
        /\ res.ret = res.mode
        /\ Selected(Cur, res.key) = Selected(res.entry, res.key)
        /\ TopOf(Selected(Cur, res.key)) = TopOf(Selected(res.entry, res.key))
        /\ res.key = None =>
               _get_current_dispatch_mode(Cur) = _get_current_dispatch_mode(res.entry)

\* A keyed block opened on a non-empty keyed stack has closed, inside an
\* enclosing scope.
C1_Witness ==
    /\ res.op = "exit"
    /\ res.key = "K1"
    /\ res.mode = "m2"
    /\ res.entry.keyed["K1"] = <<"m1">>
    /\ scopes # <<>>

\* Every push appends the pushed mode to the selected stack and every
\* successful pop removes the last entry of the selected stack and returns it.
LifoStep ==
    /\ res.op \in PushOps =>
           Selected(Cur, res.key) = Append(Selected(res.before, res.key), res.mode)
    /\ (res.op \in PopOps /\ res.err = None) =>
           Selected(res.before, res.key) = Append(Selected(Cur, res.key), res.ret)

\* A push immediately followed by a pop of the same stack returns the mode
\* that was pushed.
PushThenPop ==
    (res.op = "push" /\ res'.op = "pop" /\ res'.key = res.key) =>
        (res'.err = None /\ res'.ret = res.mode)

\* C2. LIFO order: pushes append, pops remove and return the most recently
\* pushed entry still on the stack, so no entry is dropped or reordered, and
\* a push immediately followed by a pop returns the pushed mode.
C2_Lifo == [](LifoStep) /\ [][PushThenPop]_vars

\* A pop has returned the later of two different modes of a keyed stack.
C2_Witness ==
    /\ res.op = "pop"
    /\ res.key = "K2"
    /\ res.before.keyed["K2"] = <<"m1", "m2">>
    /\ res.ret = "m2"
    /\ mode_stack_per_key["K2"] = <<"m1">>

\* C3. A pop on an empty selected stack fails with EmptyStackError, returns
\* nothing and leaves every stack and both reserved slots unchanged.
C3_PopEmpty ==
    (res.op = "pop" /\ Selected(res.before, res.key) = <<>>) =>
        /\ res.err = EmptyStackError
        /\ res.ret = None
        /\ Stacks(Cur) = Stacks(res.before)

\* A keyed pop has failed while the untagged stack and the slots held modes.
C3_Witness ==
    /\ res.op = "pop"
    /\ res.key = "K1"
    /\ res.err = EmptyStackError
    /\ torch_dispatch_stack = <<"m1", "m2">>
    /\ proxy_tensor_mode = "pm"
    /\ fake_tensor_mode = "fm"

\* C4 as claimed: current returns the top of the selected stack and None
\* whenever the selected stack is empty.
C4_Claimed ==
    res.op = "current" => res.ret = TopOf(Selected(res.before, res.key))

\* C4, amended. _get_current_dispatch_mode takes no key: it returns the top of
\* the untagged stack, without removing it, when that stack is not empty, and
\* it returns None exactly when the untagged stack and both reserved slots
\* are empty, whatever the keyed stacks hold.
C4_Current ==
    /\ torch_dispatch_stack # <<>> =>
           _get_current_dispatch_mode(Cur) = Last(torch_dispatch_stack)
    /\ _get_current_dispatch_mode(Cur) = None <=>
           /\ torch_dispatch_stack = <<>>
           /\ proxy_tensor_mode = None
           /\ fake_tensor_mode = None
    /\ res.op = "current" =>
           /\ res.ret = _get_current_dispatch_mode(Cur)
           /\ Stacks(Cur) = Stacks(res.before)

\* The call returned a mode although the untagged stack was empty.
C4_Witness ==
    /\ res.op = "current"
    /\ torch_dispatch_stack = <<>>
    /\ mode_stack_per_key["K1"] # <<>>
    /\ res.ret = "fm"

\* C5. The interceptor resolved is the top of the untagged stack if there is
\* one, else the proxy slot's mode if there is one, else the fake slot's mode
\* if there is one, else None.
C5_Priority ==
    LET r == _get_current_dispatch_mode(Cur)
    IN  /\ r = (IF torch_dispatch_stack # <<>> THEN Last(torch_dispatch_stack)
                ELSE IF proxy_tensor_mode # None THEN proxy_tensor_mode
                ELSE fake_tensor_mode)
        /\ (r # None /\ r = fake_tensor_mode) =>
               (torch_dispatch_stack = <<>> /\ proxy_tensor_mode = None)
        /\ (r # None /\ r = proxy_tensor_mode) => torch_dispatch_stack = <<>>
        /\ res.op = "current" => res.ret = r

\* The proxy mode was resolved with the fake slot occupied too.
C5_Witness ==
    /\ res.op = "current"
    /\ torch_dispatch_stack = <<>>
    /\ proxy_tensor_mode = "pm"
    /\ fake_tensor_mode = "fm"
    /\ res.ret = "pm"

\* C6. The chain lists every untagged entry once, bottom to top, then the
\* proxy slot's mode if any, then the fake slot's mode if any, and the call
\* changes no stack or slot.
C6_Chain ==
    LET chain == _get_current_dispatch_mode_stack(Cur)
        n == Len(torch_dispatch_stack)
        np == IF proxy_tensor_mode = None THEN 0 ELSE 1
        nf == IF fake_tensor_mode = None THEN 0 ELSE 1
    IN  /\ Len(chain) = n + np + nf
        /\ \A i \in 1..n : chain[i] = torch_dispatch_stack[i]
        /\ np = 1 => chain[n + 1] = proxy_tensor_mode
        /\ nf = 1 => chain[n + np + 1] = fake_tensor_mode
        /\ res.op = "current_stack" =>
               /\ res.rets = chain
               /\ Stacks(Cur) = Stacks(res.before)

\* The chain of two different user modes and both slots was returned.
C6_Witness ==
    /\ res.op = "current_stack"
    /\ res.rets = <<"m1", "m2", "pm", "fm">>

\* C7. _pop_mode_temporarily(k) pops the top of the selected stack and yields
\* it; when its scope is left, by return or by an exception, the yielded mode
\* is back on top of the selected stack, which is what it was before the
\* scope.
C7_TemporaryPop ==
    /\ (res.op = "tmp_enter" /\ res.err = None) =>
           /\ res.ret = Last(Selected(res.before, res.key))
           /\ Selected(Cur, res.key) = Front(Selected(res.before, res.key))
           /\ Last(scopes).old = res.ret
    /\ res.op = "tmp_exit" =>
           /\ res.mode = Last(Selected(res.entry, res.key))
           /\ Selected(Cur, res.key) = Selected(res.entry, res.key)
           /\ Selected(Cur, res.key) = Append(Selected(res.before, res.key), res.mode)

\* A temporary pop of a stack of two modes was left by an exception.
C7_Witness ==
    /\ res.op = "tmp_exit"
    /\ res.raised
    /\ res.key = None
    /\ res.entry.stack = <<"m1", "m2">>
    /\ torch_dispatch_stack = <<"m1", "m2">>

\* C8. When the scope of _disable_current_modes is left, by return or by an
\* exception, every stack and both reserved slots are what they were before
\* the scope.
C8_DisableRestores ==
    res.op = "disable_exit" => Stacks(Cur) = Stacks(res.entry)

\* The scope was left by an exception, with two user modes and both slots to
\* restore.
C8_Witness ==
    /\ res.op = "disable_exit"
    /\ res.raised
    /\ res.entry.stack = <<"m1", "m2">>
    /\ res.entry.proxy = "pm"
    /\ res.entry.fake = "fm"
    /\ res.before.stack = <<>>

\* C9 as claimed: when the body of _disable_current_modes starts, the
\* untagged stack, every keyed stack and both reserved slots are empty.
C9_Claimed ==
    res.op = "disable_enter" =>
        /\ torch_dispatch_stack = <<>>
        /\ \A k \in Keys : mode_stack_per_key[k] = <<>>
        /\ proxy_tensor_mode = None
        /\ fake_tensor_mode = None

\* C10. When _push_mode(mode, k) with a key returns, the mode is on top of
\* the key's stack and no operator has a cached decision for any backend key
\* of k.
C10_Uncached ==
    (res.op = "push" /\ res.key # None) =>
        /\ TopOf(mode_stack_per_key[res.key]) = res.mode
        /\ \A op \in Ops : \A key \in _functionality_to_backend_keys(res.key) :
               <<op, key>> \notin dispatch_cache

\* A keyed push found decisions of two operators cached for its backend keys.
C10_Witness ==
    /\ res.op = "push"
    /\ res.key = "K1"
    /\ {<<"op1", <<"K1", "CPU">>>>, <<"op2", <<"K1", "CUDA">>>>} \subseteq res.before.cache
    /\ <<"op1", <<"K2", "CPU">>>> \in dispatch_cache

\* C11. The stacks are independent: a push or a pop with key k (also the
\* push and the pop of a `with mode:` block and of _pop_mode_temporarily)
\* changes at most the stack selected by k; the untagged stack and the keyed
\* stacks not selected, and both reserved slots, are as before the call.
C11_Independent ==
    res.op \in PushOps \cup PopOps =>
        /\ \A k \in (Keys \cup {None}) \ {res.key} :
               Selected(Cur, k) = Selected(res.before, k)
        /\ proxy_tensor_mode = res.before.proxy
        /\ fake_tensor_mode = res.before.fake

\* A keyed pop has returned a mode while the untagged stack and both slots
\* held modes.
C11_Witness ==
    /\ res.op = "pop"
    /\ res.key = "K1"
    /\ res.ret = "m1"
    /\ torch_dispatch_stack = <<"m2">>
    /\ proxy_tensor_mode = "pm"
    /\ fake_tensor_mode = "fm"

\* C12. Modes compose like a call stack: entering a `with mode:` block puts
\* the mode on top of its stack and leaving it, by return or by an exception,
\* pops that mode; whenever the innermost open scope is the block of an
\* untagged mode, _get_current_dispatch_mode returns that mode, so inside
\* nested blocks it is the inner mode and, once the inner block is left, the
\* next-outer mode again.
C12_CallStack ==
    /\ res.op = "enter" => TopOf(Selected(Cur, res.key)) = res.mode
    /\ res.op = "exit" => (res.err = None /\ res.ret = res.mode)
    /\ (scopes # <<>> /\ Last(scopes).kind = "mode" /\ Last(scopes).key = None) =>
           _get_current_dispatch_mode(Cur) = Last(scopes).self

\* The inner of two nested untagged blocks was left by an exception and the
\* outer mode is current again.
C12_Witness ==
    /\ res.op = "exit"
    /\ res.raised
    /\ res.key = None
    /\ res.mode = "m2"
    /\ Len(scopes) = 1
    /\ Last(scopes).kind = "mode"
    /\ Last(scopes).self = "m1"
    /\ _get_current_dispatch_mode(Cur) = "m1"

----------------------------------------------------------------------------
(* Properties of the alias/mutation engine. *)

\* The call of the given function has finished.
Done(fn) == aliasing.pc = "done" /\ aliasing.fn = fn

\* The call has finished and returned.
Returns(fn) == Done(fn) /\ aliasing.result.err = None

\* The alias sets of argument i and return j of the schema intersect.
Intersect(i, j) == aliasing.func.arguments[i] \cap aliasing.func.returns[j] # {}

\* The arguments whose alias sets intersect that of return j.
Matching(j) == {i \in 1..Len(aliasing.func.arguments) : Intersect(i, j)}

\* The largest member of a non-empty set of numbers.
Max(S) == CHOOSE x \in S : \A y \in S : y <= x

IsSplit == aliasing.func.overloadpacket \in SplitPackets

\* C13 as stated: after _correct_storage_aliasing returns, every output
\* shares the storage of every argument whose alias set intersects its own.
C13_Claimed ==
    Returns("fix") =>
        \A j \in 1..Len(aliasing.func.returns) : \A i \in Matching(j) :
            aliasing.result.outs[j].storage = aliasing.args[i].storage

\* C13: after _correct_storage_aliasing returns for an operator that is not
\* a splitting one, every output whose alias set intersects that of some
\* argument shares the storage of the last such argument.
C13_PairsAliased ==
    (Returns("fix") /\ ~IsSplit) =>
        \A j \in 1..Len(aliasing.func.returns) :
            Matching(j) # {} =>
                aliasing.result.outs[j].storage = aliasing.args[Max(Matching(j))].storage

\* Return 1 aliases both arguments, and the output was given the storage of
\* argument 2, the storage of argument 1 being another.
C13_Witness ==
    /\ Returns("fix")
    /\ ~IsSplit
    /\ Matching(1) = {1, 2}
    /\ aliasing.result.outs[1].storage = aliasing.args[2].storage
    /\ aliasing.result.outs[1].storage # aliasing.args[1].storage
    /\ aliasing.outs[1].storage # aliasing.args[2].storage

\* The outputs whose storage the call has replaced.
Swapped == {j \in 1..Len(aliasing.outs) :
               aliasing.result.outs[j].storage # aliasing.outs[j].storage}

\* C14 as stated: after _correct_storage_aliasing returns, every output
\* whose storage was swapped, of whatever type, has the shape it had before
\* the call, also when the storage of the input has another size.
C14_Claimed ==
    Returns("fix") =>
        \A j \in Swapped : aliasing.result.outs[j].shape = aliasing.outs[j].shape

\* C15: after _correct_storage_aliasing returns for one of the splitting
\* operators, every output shares the storage of the first argument,
\* whatever the alias sets of the schema.
C15_SplitAliased ==
    (Returns("fix") /\ IsSplit) =>
        \A j \in 1..Len(aliasing.outs) :
            aliasing.result.outs[j].storage = aliasing.args[1].storage

\* unbind gave two outputs; the schema aliases its return to argument 2
\* only, and both outputs were put on the storage of argument 1.
C15_Witness ==
    /\ Returns("fix")
    /\ aliasing.func.overloadpacket = "unbind"
    /\ Len(aliasing.outs) = 2
    /\ Matching(1) = {2}
    /\ \A j \in 1..2 : aliasing.outs[j].storage # aliasing.args[1].storage
    /\ \A j \in 1..2 : aliasing.result.outs[j].storage = aliasing.args[1].storage

\* C16 as stated: _correct_storage_aliasing fails with AliasSchemaError
\* whenever some output value has no __torch_dispatch__.
C16_Claimed ==
    (Done("fix") /\ \E j \in 1..Len(aliasing.outs) : ~HasTorchDispatch(aliasing.outs[j])) =>
        aliasing.result.err = AliasSchemaError

\* C16: _correct_storage_aliasing fails with AliasSchemaError exactly when
\* some output that is a tensor has no __torch_dispatch__; outputs that are
\* no tensors are not looked at, and the failing call swaps no storage.
C16_TensorOutputsChecked ==
    Done("fix") =>
        /\ (aliasing.result.err = AliasSchemaError) <=>
               (\E j \in 1..Len(aliasing.outs) :
                    IsTensor(aliasing.outs[j]) /\ ~HasTorchDispatch(aliasing.outs[j]))
        /\ aliasing.result.err = AliasSchemaError => aliasing.result.outs = aliasing.outs

\* Of two outputs the second is a tensor without __torch_dispatch__; the
\* first one matches an argument, and the call failed before any swap.
C16_Witness ==
    /\ Done("fix")
    /\ Len(aliasing.outs) = 2
    /\ aliasing.outs[1].kind = "WrapperTensor"
    /\ aliasing.outs[2].kind = "TensorNoDispatch"
    /\ Matching(1) # {}
    /\ aliasing.result.err = AliasSchemaError
    /\ aliasing.result.outs = aliasing.outs

\* Return j of the schema carries a write marker.
WriteMarked(j) == \E name \in aliasing.func.returns[j] : HasBang(name)

\* The returns of the schema that carry a write marker.
WriteReturns == {j \in 1..Len(aliasing.func.returns) : WriteMarked(j)}

\* C17: when no return of the schema carries a write marker,
\* return_and_correct_aliasing, unless _correct_storage_aliasing fails in
\* it, returns the object `out` it was given.
C17_ReturnsOut ==
    (Done("return") /\ WriteReturns = {}) =>
        /\ aliasing.result.err \notin {MixedAliasSchemaError, NameError}
        /\ aliasing.result.err = None => aliasing.result.ret = Returned("out")

\* A schema of two returns without write markers: the call returned `out`,
\* having swapped the storage of an output.
C17_Witness ==
    /\ Returns("return")
    /\ Len(aliasing.func.returns) = 2
    /\ WriteReturns = {}
    /\ Swapped # {}
    /\ aliasing.result.ret = Returned("out")

\* The errors by which _correct_storage_aliasing fails.
FixErrors == {AliasSchemaError, AssertionError, AttributeError}

\* C18 as stated: when every return of the schema carries a write marker,
\* return_and_correct_aliasing, unless _correct_storage_aliasing fails in
\* it, returns the input named by the write alias (once for a schema of one
\* return, once per return in a list otherwise) and not the object `out`.
C18_Claimed ==
    (Done("return") /\ WriteReturns = 1..Len(aliasing.func.returns)
         /\ aliasing.result.err \notin FixErrors) =>
        /\ aliasing.result.err = None
        /\ aliasing.result.ret = Returned("input")

\* C19: when some but not all returns of the schema carry a write marker,
\* return_and_correct_aliasing returns no value: it fails, and unless
\* _correct_storage_aliasing failed in it, with MixedAliasSchemaError.
C19_MixedFails ==
    (Done("return") /\ WriteReturns # {}
         /\ WriteReturns # 1..Len(aliasing.func.returns)) =>
        /\ aliasing.result.err # None
        /\ aliasing.result.ret = Returned("nothing")
        /\ aliasing.result.err \notin FixErrors =>
               aliasing.result.err = MixedAliasSchemaError

\* A schema with a write-marked return and a read-only one: the call failed
\* with MixedAliasSchemaError.
C19_Witness ==
    /\ Done("return")
    /\ aliasing.func.returns = <<{"a!"}, {"a"}>>
    /\ aliasing.result.err = MixedAliasSchemaError
    /\ aliasing.result.ret = Returned("nothing")

----------------------------------------------------------------------------
(* The wrapper-subclass protocol: transform_subclass. *)

\* The contents of a dense tensor are a number in 0..MaxData.
MaxData == 2

Data == 0..MaxData

\* The nodes of a pytree: a tensor, a leaf that is no tensor, a list.
Leaf(tag, data) == [tag |-> tag, data |-> data, items |-> <<>>]

List(items) == [tag |-> "list", data |-> 0, items |-> items]

\* The classes of the values passed in: torch.Tensor itself, a class that
\* is no tensor class, three conforming wrapper subclasses, and tensor
\* subclasses that lack one of the two methods.
WrapperTypes == {"TwoTensor", "ScaledTensor", "NestedWrapper"}

Types == WrapperTypes \cup {"Tensor", "NotTensor", "NoFlatten", "NoUnflatten"}

\* isinstance(t, torch.Tensor)
IsTensorType(type) == type # "NotTensor"

\* hasattr(t, name)
hasattr(t, name) ==
    CASE t.type \in WrapperTypes -> name \in {"__tensor_flatten__", "__tensor_unflatten__"}
      [] t.type = "NoFlatten" -> name = "__tensor_unflatten__"
      [] t.type = "NoUnflatten" -> name = "__tensor_flatten__"
      [] OTHER -> FALSE

\* A value of a class: a TwoTensor holds the tensors a and b, a
\* ScaledTensor the tensor a and the number c, a NestedWrapper the tensors
\* a and b and the number c; the other classes hold the tensor a.
Value(type, a, b, c) ==
    [type |-> type, a |-> Leaf("tensor", a), b |-> Leaf("tensor", b), c |-> c]

Values ==
    {Value("TwoTensor", a, b, 0) : a \in Data, b \in Data}
    \cup {Value("ScaledTensor", a, 0, c) : a \in Data, c \in Data}
    \cup {Value("NestedWrapper", a, b, c) : a \in Data, b \in Data, c \in Data}
    \cup {Value(type, a, 0, 0) : type \in Types \ WrapperTypes, a \in Data}

\* type(t).__tensor_flatten__(t): the pytree of inner tensors and the
\* context.  A NestedWrapper nests a list and a leaf that is no tensor.
__tensor_flatten__(t) ==
    CASE t.type = "TwoTensor" -> [tensors |-> List(<<t.a, t.b>>), ctx |-> 0]
      [] t.type = "ScaledTensor" -> [tensors |-> List(<<t.a>>), ctx |-> t.c]
      [] OTHER ->
           [tensors |-> List(<<t.a, List(<<t.b, Leaf("other", t.c)>>)>>), ctx |-> t.c + 1]

\* type(t).__tensor_unflatten__(tensors, ctx)
__tensor_unflatten__(type, tensors, ctx) ==
    CASE type = "TwoTensor" ->
           [type |-> type, a |-> tensors.items[1], b |-> tensors.items[2], c |-> 0]
      [] type = "ScaledTensor" ->
           [type |-> type, a |-> tensors.items[1], b |-> Leaf("tensor", 0), c |-> ctx]
      [] OTHER ->
           [type |-> type, a |-> tensors.items[1], b |-> tensors.items[2].items[1],
            c |-> ctx - 1]

\* The callbacks: the identity, and one that changes the contents of a
\* tensor.
Callbacks == {"identity", "add_one"}

\* callback(x)
Apply(callback, x) ==
    IF callback = "identity" THEN x ELSE [x EXCEPT !.data = @ + 1]

\* The result of a map over a pytree: the new tree, and the tensors the
\* callback was called on, in the order of the calls.
Mapped(tree, applied) == [tree |-> tree, applied |-> applied]

IsTensorLeaf(x) == x.tag = "tensor"

\* As tree_map_only, but the lists nested in the tree are not entered.
tree_map_only_top_level(callback, tree) ==
    IF tree.tag = "list"
    THEN Mapped(List([i \in 1..Len(tree.items) |->
                         IF IsTensorLeaf(tree.items[i]) THEN Apply(callback, tree.items[i])
                         ELSE tree.items[i]]),
                SelectSeq(tree.items, IsTensorLeaf))
    ELSE IF tree.tag = "tensor" THEN Mapped(Apply(callback, tree), <<tree>>)
    ELSE Mapped(tree, <<>>)

\* torch.utils._pytree.tree_map_only(torch.Tensor, callback, tree);
\* MapItems maps the first n items of a list, one after the other.
RECURSIVE tree_map_only(_, _)
RECURSIVE MapItems(_, _, _)
MapItems(callback, items, n) ==
    IF n = 0 THEN [items |-> <<>>, applied |-> <<>>]
    ELSE LET front == MapItems(callback, items, n - 1)
             last == tree_map_only(callback, items[n])
         IN  [items |-> Append(front.items, last.tree),
              applied |-> front.applied \o last.applied]

tree_map_only(callback, tree) ==
    IF tree.tag = "list"
    THEN LET m == MapItems(callback, tree.items, Len(tree.items))
         IN  Mapped(List(m.items), m.applied)
    ELSE IF tree.tag = "tensor" THEN Mapped(Apply(callback, tree), <<tree>>)
    ELSE Mapped(tree, <<>>)

NotWrapperSubclassError == "NotWrapperSubclassError"

is_traceable_wrapper_subclass(t) ==
    LET is_subclass == IsTensorType(t.type) /\ t.type # "Tensor"
    IN  is_subclass /\ hasattr(t, "__tensor_flatten__") /\ hasattr(t, "__tensor_unflatten__")

\* The outcome of transform_subclass: the error raised (None if it
\* returned), the value returned, the methods called in order, the tensors
\* the callback was called on, and the arguments given to
\* __tensor_unflatten__.
Transformed(err, val, calls, applied, tensors, ctx) ==
    [err |-> err, val |-> val, calls |-> calls, applied |-> applied,
     tensors |-> tensors, ctx |-> ctx]

\* The outcome of a call that made no call.
Failed(err, t) == Transformed(err, t, <<>>, <<>>, List(<<>>), 0)

\* As transform_subclass, but the value is rebuilt without the context.
transform_subclass_ctx_dropped(t, callback) ==
    IF ~is_traceable_wrapper_subclass(t) THEN Failed(NotWrapperSubclassError, t)
    ELSE LET flat == __tensor_flatten__(t)
             transformed_tensors == tree_map_only(callback, flat.tensors)
         IN  Transformed(None, __tensor_unflatten__(t.type, transformed_tensors.tree, 0),
                         <<"__tensor_flatten__", "__tensor_unflatten__">>,
                         transformed_tensors.applied, transformed_tensors.tree, 0)

\* As transform_subclass, without the assertion.
transform_subclass_no_assert(t, callback) ==
    LET flat == __tensor_flatten__(t)
        transformed_tensors == tree_map_only(callback, flat.tensors)
    IN  Transformed(None,
                    __tensor_unflatten__(t.type, transformed_tensors.tree, flat.ctx),
                    <<"__tensor_flatten__", "__tensor_unflatten__">>,
                    transformed_tensors.applied, transformed_tensors.tree, flat.ctx)

\* transform_subclass(t, callback): the value returned, or the failed
\* assertion.
transform_subclass(t, callback) ==
    IF ~is_traceable_wrapper_subclass(t) THEN Failed(NotWrapperSubclassError, t)
    ELSE LET flat == __tensor_flatten__(t)
             transformed_tensors == tree_map_only(callback, flat.tensors)
         IN  Transformed(None,
                         __tensor_unflatten__(t.type, transformed_tensors.tree, flat.ctx),
                         <<"__tensor_flatten__", "__tensor_unflatten__">>,
                         transformed_tensors.applied, transformed_tensors.tree, flat.ctx)

InitSubclass ==
    /\ torch_dispatch_stack = <<>>
    /\ mode_stack_per_key = [k \in Keys |-> <<>>]
    /\ proxy_tensor_mode = None
    /\ fake_tensor_mode = None
    /\ dispatch_cache = {}
    /\ cached_ops = {}
    /\ scopes = <<>>
    /\ res = Call("init", None, None, None, <<>>, None, FALSE, EmptyState, EmptyState)
    /\ aliasing = NoCall
    /\ cuda = NoCall
    /\ cond_call = NoCall
    /\ \E t \in Values :
           subclass = [pc |-> "ready", t |-> t, callback |-> "none",
                       result |-> Failed(None, t)]

\* A call transform_subclass(t, callback).
TransformSubclass(callback) ==
    /\ subclass.pc = "ready"
    /\ subclass' = [subclass EXCEPT !.pc = "done", !.callback = callback,
                        !.result = transform_subclass(subclass.t, callback)]
    /\ UNCHANGED <<modeVars, aliasing, cuda, cond_call>>

NextSubclass == \E callback \in Callbacks : TransformSubclass(callback)

SpecSubclass == InitSubclass /\ [][NextSubclass]_vars

\* C20: transform_subclass with the identity callback, applied to a value
\* of a conforming wrapper subclass, returns a value equal to it, the one
\* its class rebuilds from the unchanged inner tensors and context.
C20_RoundTrip ==
    (subclass.pc = "done" /\ subclass.callback = "identity"
         /\ subclass.t.type \in WrapperTypes) =>
        /\ subclass.result.err = None
        /\ subclass.result.val = subclass.t

\* A NestedWrapper with non-zero contents and context went through
\* transform_subclass with the identity callback and came back equal.
C20_Witness ==
    /\ subclass.pc = "done"
    /\ subclass.callback = "identity"
    /\ subclass.t = Value("NestedWrapper", 1, 2, 1)
    /\ subclass.result.err = None
    /\ subclass.result.val = subclass.t

\* The tensors of a pytree of lists nested at most twice, left to right.
RECURSIVE TensorLeaves(_)
TensorLeaves(tree) ==
    IF tree.tag = "list"
    THEN IF tree.items = <<>> THEN <<>>
         ELSE TensorLeaves(List(Front(tree.items))) \o TensorLeaves(Last(tree.items))
    ELSE IF tree.tag = "tensor" THEN <<tree>>
    ELSE <<>>

\* Tree `new` is tree `old` with the callback applied to its tensors and
\* nothing else changed.
RECURSIVE OnlyLeavesMapped(_, _, _)
OnlyLeavesMapped(callback, old, new) ==
    /\ new.tag = old.tag
    /\ Len(new.items) = Len(old.items)
    /\ IF old.tag = "list"
       THEN \A i \in 1..Len(old.items) :
                OnlyLeavesMapped(callback, old.items[i], new.items[i])
       ELSE IF old.tag = "tensor" THEN new = Apply(callback, old)
       ELSE new = old

\* The call of transform_subclass on a conforming value has finished.
Conforming == subclass.pc = "done" /\ subclass.t.type \in WrapperTypes

\* C21: transform_subclass calls the callback once on every tensor of the
\* flattened pytree, nested ones included, and gives __tensor_unflatten__
\* the pytree with these tensors replaced by the callback's results and
\* everything else (other leaves, nesting, lengths, context) unchanged.
C21_LeavesOnly ==
    Conforming =>
        LET flat == __tensor_flatten__(subclass.t)
        IN  /\ subclass.result.err = None
            /\ subclass.result.applied = TensorLeaves(flat.tensors)
            /\ OnlyLeavesMapped(subclass.callback, flat.tensors, subclass.result.tensors)
            /\ subclass.result.ctx = flat.ctx

\* A NestedWrapper went through transform_subclass with the changing
\* callback: it was called on both tensors, the nested one included, and the
\* nested leaf that is no tensor reached __tensor_unflatten__ unchanged.
C21_Witness ==
    /\ Conforming
    /\ subclass.callback = "add_one"
    /\ subclass.t = Value("NestedWrapper", 1, 2, 1)
    /\ subclass.result.applied = <<Leaf("tensor", 1), Leaf("tensor", 2)>>
    /\ subclass.result.tensors =
           List(<<Leaf("tensor", 2), List(<<Leaf("tensor", 3), Leaf("other", 1)>>)>>)
    /\ subclass.result.val = Value("NestedWrapper", 2, 3, 1)

\* C22: transform_subclass fails with NotWrapperSubclassError on a value
\* that is the base tensor, no tensor, or a tensor subclass lacking
\* __tensor_flatten__ or __tensor_unflatten__, and then calls neither
\* __tensor_flatten__ nor the callback.
C22_NotWrapperSubclass ==
    (subclass.pc = "done" /\ subclass.t.type \notin WrapperTypes) =>
        /\ subclass.result.err = NotWrapperSubclassError
        /\ subclass.result.calls = <<>>
        /\ subclass.result.applied = <<>>

\* A tensor subclass that has __tensor_flatten__ but no __tensor_unflatten__
\* was passed in: the call failed without calling anything.
C22_Witness ==
    /\ subclass.pc = "done"
    /\ subclass.callback = "add_one"
    /\ subclass.t.type = "NoUnflatten"
    /\ subclass.result.err = NotWrapperSubclassError
    /\ subclass.result.calls = <<>>
    /\ subclass.result.applied = <<>>

----------------------------------------------------------------------------
(* CUDA streams: torch.cuda.stream and torch.cuda.current_stream as the    *)
(* programs of test/jit/test_cuda.py use them.                             *)

\* The devices cuda:0 and cuda:1.
Devices == {0, 1}

\* The streams of a device have the ids 0..MaxStreamId, 0 being that of its
\* default stream.
MaxStreamId == 2

\* At most MaxNest `with torch.cuda.stream(s)` blocks are open.
MaxNest == 2

\* The priorities a stream is asked for; the programs pass 0.
Priorities == {-1, 0}

\* A stream object: what its methods device_index() and id() return.
CUDAStream(device, id) == [device_index |-> device, id |-> id]

Streams == {CUDAStream(d, i) : d \in Devices, i \in 0..MaxStreamId}

\* torch.cuda.default_stream(device): the stream of id 0.
default_stream(device) == CUDAStream(device, 0)

\* torch.classes.cuda.Stream(device_index, priority): a stream of the
\* device other than its default stream and than the streams made before,
\* id being the id the runtime gives it.
Stream(C, device_index, priority, id) ==
    [C |-> [C EXCEPT !.made = @ \cup {CUDAStream(device_index, id)}],
     ret |-> CUDAStream(device_index, id)]

\* torch.cuda.current_stream(device)
current_stream(C, device) == C.current[device]

\* torch.cuda.set_stream(stream): stream becomes current on its device.
set_stream(C, stream) ==
    [C EXCEPT !.current[stream.device_index] = stream]

\* An observation of the program: the call and what it returned.
Seen(op, device, ret) == [op |-> op, device |-> device, ret |-> ret]

InitStream ==
    /\ torch_dispatch_stack = <<>>
    /\ mode_stack_per_key = [k \in Keys |-> <<>>]
    /\ proxy_tensor_mode = None
    /\ fake_tensor_mode = None
    /\ dispatch_cache = {}
    /\ cached_ops = {}
    /\ scopes = <<>>
    /\ res = Call("init", None, None, None, <<>>, None, FALSE, EmptyState, EmptyState)
    /\ aliasing = NoCall
    /\ subclass = NoCall
    /\ cond_call = NoCall
    /\ cuda = [pc |-> "run", current |-> [d \in Devices |-> default_stream(d)],
               made |-> {}, open |-> <<>>,
               seen |-> Seen("init", 0, default_stream(0))]

\* user_stream = torch.classes.cuda.Stream(device_index, priority)
NewStream(device_index, priority) ==
    /\ cuda.pc = "run"
    /\ \E id \in 1..MaxStreamId :
           /\ CUDAStream(device_index, id) \notin cuda.made
           /\ LET r == Stream(cuda, device_index, priority, id)
              IN  cuda' = [r.C EXCEPT !.seen = Seen("Stream", device_index, r.ret)]
    /\ UNCHANGED <<modeVars, aliasing, subclass, cond_call>>

\* with torch.cuda.stream(s): entering the block remembers the current
\* stream of the device of s and makes s current.
StreamEnter(s) ==
    /\ cuda.pc = "run"
    /\ s \in cuda.made \cup {default_stream(d) : d \in Devices}
    /\ Len(cuda.open) < MaxNest
    /\ cuda' = [set_stream(cuda, s) EXCEPT
                    !.open = Append(@, [stream |-> s,
                                        prev |-> current_stream(cuda, s.device_index)]),
                    !.seen = Seen("enter", s.device_index, s)]
    /\ UNCHANGED <<modeVars, aliasing, subclass, cond_call>>

\* As StreamExit, but the stream that was current before is not set again.
StreamExitNoRestore ==
    /\ cuda.pc = "run"
    /\ cuda.open # <<>>
    /\ cuda' = [cuda EXCEPT
                    !.open = Front(@),
                    !.seen = Seen("exit", Last(cuda.open).stream.device_index,
                                  Last(cuda.open).stream)]
    /\ UNCHANGED <<modeVars, aliasing, subclass, cond_call>>

\* Leaving the innermost block makes the remembered stream current again.
StreamExit ==
    /\ cuda.pc = "run"
    /\ cuda.open # <<>>
    /\ cuda' = [set_stream(cuda, Last(cuda.open).prev) EXCEPT
                    !.open = Front(@),
                    !.seen = Seen("exit", Last(cuda.open).stream.device_index,
                                  Last(cuda.open).stream)]
    /\ UNCHANGED <<modeVars, aliasing, subclass, cond_call>>

\* torch.cuda.current_stream(device) in the body of the program.
CurrentStream(device) ==
    /\ cuda.pc = "run"
    /\ cuda' = [cuda EXCEPT
                    !.seen = Seen("current_stream", device, current_stream(cuda, device))]
    /\ UNCHANGED <<modeVars, aliasing, subclass, cond_call>>

NextStream ==
    \/ \E d \in Devices, priority \in Priorities : NewStream(d, priority)
    \/ \E s \in Streams : StreamEnter(s)
    \/ StreamExit
    \/ \E d \in Devices : CurrentStream(d)

SpecStream == InitStream /\ [][NextStream]_vars

\* The open blocks whose stream is on the device.
OpenOn(device) ==
    SelectSeq(cuda.open, LAMBDA b : b.stream.device_index = device)

\* C23: in the body of a `with torch.cuda.stream(s)` block the current
\* stream of the device of s is s: for every device with an open block the
\* current stream is that of the innermost open block on the device, so of
\* two nested blocks the outer stream is current in the outer body and the
\* inner stream in the inner body; current_stream returns it.
C23_StreamScope ==
    cuda.pc = "run" =>
        /\ \A d \in Devices :
               OpenOn(d) # <<>> => current_stream(cuda, d) = Last(OpenOn(d)).stream
        /\ (cuda.seen.op = "current_stream" /\ OpenOn(cuda.seen.device) # <<>>) =>
               cuda.seen.ret = Last(OpenOn(cuda.seen.device)).stream

\* Two streams s1 and s2 were made on device 0, with the ids 1 and 2; the
\* block of s2 is open inside the block of s1: in the inner body
\* current_stream returns s2, and s1 is the one to be current again in the
\* outer body.
C23_Witness ==
    /\ cuda.pc = "run"
    /\ cuda.made = {CUDAStream(0, 1), CUDAStream(0, 2)}
    /\ cuda.open = <<[stream |-> CUDAStream(0, 1), prev |-> default_stream(0)],
                     [stream |-> CUDAStream(0, 2), prev |-> CUDAStream(0, 1)]>>
    /\ cuda.seen = Seen("current_stream", 0, CUDAStream(0, 2))

----------------------------------------------------------------------------
(* More properties of the alias/mutation engine. *)

\* Some output that is a tensor has no __torch_dispatch__.
LacksDispatch ==
    \E j \in 1..Len(aliasing.outs) :
        IsTensor(aliasing.outs[j]) /\ ~HasTorchDispatch(aliasing.outs[j])

\* C24: return_and_correct_aliasing runs _correct_storage_aliasing before
\* it looks at the write markers of the returns: a failure of the fix-up
\* wins over the mixed-schema error, and a call that got past the fix-up,
\* also one that ends in MixedAliasSchemaError, has swapped the storage of
\* every output that aliases an argument.
C24_FixFirst ==
    Done("return") =>
        /\ LacksDispatch => aliasing.result.err = AliasSchemaError
        /\ (aliasing.result.err \notin FixErrors /\ ~IsSplit) =>
               \A j \in 1..Len(aliasing.func.returns) :
                   Matching(j) # {} =>
                       aliasing.result.outs[j].storage =
                           aliasing.args[Max(Matching(j))].storage
        /\ (aliasing.result.err \notin FixErrors /\ IsSplit) =>
               \A j \in 1..Len(aliasing.outs) :
                   aliasing.result.outs[j].storage = aliasing.args[1].storage

\* A schema with a write-marked return and a read-only one that aliases
\* argument 1: the call failed with MixedAliasSchemaError, and output 2 is
\* on the storage of argument 1.
C24_Witness ==
    /\ Done("return")
    /\ aliasing.func.returns = <<{"a!"}, {"a"}>>
    /\ Matching(2) = {1}
    /\ aliasing.result.err = MixedAliasSchemaError
    /\ aliasing.outs[2].storage # aliasing.args[1].storage
    /\ aliasing.result.outs[2].storage = aliasing.args[1].storage

----------------------------------------------------------------------------
(* The implementations of the higher-order operator cond that use the      *)
(* mode stack: cond_dense, the proxy-mode handler `inner`, trace_cond,     *)
(* cond_fake_tensor_mode.                                                  *)

\* At most MaxGraphs pairs of branch graphs are registered on the root of
\* the tracer.
MaxGraphs == 2

CondOpArgsMismatchError == "CondOpArgsMismatchError"

RuntimeError == "RuntimeError"

\* The exception a branch or another callback raises.
ValueError == "ValueError"

\* The class of a mode: a ProxyTorchDispatchMode, or a mode of another
\* class (a FakeTensorMode), which has no attribute enable_tracing.
IsProxyMode(mode) == mode \in {"m1"} \cup ProxyModes

\* A branch function: its name and the tensor metadata of its outputs.
Branch(name, outs) == [name |-> name, outs |-> outs]

\* The outputs of the branches: true_fn returns one float tensor, false_fn
\* the same, a tensor of another dtype, or two tensors.
TrueOuts == {<<"f32">>}

BranchOuts == {<<"f32">>, <<"i64">>, <<"f32", "f32">>}

\* What calling a branch on the operands returns.
BranchResult(fn) == [from |-> fn.name, outs |-> fn.outs]

NoResult == [from |-> "nothing", outs |-> <<>>]

\* The operands of a call: a list or tuple of tensors, a list holding a
\* torch.fx.proxy.Proxy, or tensors in an iterable that is neither a list
\* nor a tuple (a frozenset).
Operands == {"tensors", "proxy", "frozenset"}

\* tuple(operands): the same items in a tuple.
tuple(operands) == IF operands = "frozenset" THEN "tensors" ELSE operands

\* The arguments of a call of cond, with the value of the attribute
\* enable_tracing of the ProxyTorchDispatchModes and what
\* torch._dynamo.is_compiling() returns.
CondArgs(pred, true_outs, false_outs, operands, enable_tracing, is_compiling) ==
    [pred |-> pred, true_fn |-> Branch("true_fn", true_outs),
     false_fn |-> Branch("false_fn", false_outs), operands |-> operands,
     enable_tracing |-> enable_tracing, is_compiling |-> is_compiling]

\* A call of an implementation, under way or ended: the mode-stack state,
\* the number of graph pairs on the tracer root, the place `at` of the
\* callback being run ("end" once the call has ended), the modes popped by
\* the open `with _pop_mode_temporarily()` blocks, outermost first, the
\* modes put aside by an open `with _disable_current_modes()` block, the
\* value returned, the error raised (None if there is none), the
\* implementations and callbacks called in order, and for a call of
\* `inner` the mode found current and the mode popped.
CondOutcome(S, graphs, at, pushback, disabled, ret, err, calls, found, popped) ==
    [S |-> S, graphs |-> graphs, at |-> at, pushback |-> pushback,
     disabled |-> disabled, ret |-> ret, err |-> err, calls |-> calls,
     found |-> found, popped |-> popped]

\* No `with _disable_current_modes()` block is open.
NotDisabled == [open |-> FALSE, old_modes |-> <<>>, mb_proxy |-> <<>>, mb_fake |-> <<>>]

\* The call as it starts in state S.
CondStart(S, graphs) ==
    CondOutcome(S, graphs, "start", <<>>, NotDisabled, NoResult, None, <<>>, None, None)

\* The finally blocks of the open `with _pop_mode_temporarily()` blocks,
\* innermost first: each pushes the mode it popped.
RECURSIVE PushBack(_)
PushBack(k) ==
    IF k.pushback = <<>> THEN k
    ELSE PushBack([k EXCEPT !.S = _push_mode(k.S, Last(k.pushback), None),
                            !.pushback = Front(@)])

\* The implementation calls f, a branch or another callback; place names
\* the call.
CallBack(k, place, f) == [k EXCEPT !.at = place, !.calls = Append(@, f)]

\* The implementation is entered.
Entered(k, name) == [k EXCEPT !.calls = Append(@, name)]

\* The call returns ret through the open with blocks.
Leave(k, ret) == PushBack([k EXCEPT !.at = "end", !.ret = ret])

\* As Throw, but the with blocks are left without their finally blocks.
ThrowNoFinally(k, err) == [k EXCEPT !.at = "end", !.err = err, !.pushback = <<>>]

\* An exception leaves the call through the open with blocks.
Throw(k, err) == PushBack([k EXCEPT !.at = "end", !.err = err])

\* trace_cond(proxy_mode, cond, pred, true_fn, false_fn, operands) up to
\* make_fx(true_fn)(*operands), which runs true_fn: the operands are
\* asserted to be a list or tuple, and every one of them a tensor.
trace_cond(k, c) ==
    IF c.operands = "frozenset" \/ c.operands = "proxy"
    THEN Throw(Entered(k, "trace_cond"), AssertionError)
    ELSE CallBack(Entered(k, "trace_cond"), "trace_true", "true_fn")

\* make_fx(false_fn)(*operands), which runs false_fn.
trace_cond_false_graph(k, c) == CallBack(k, "trace_false", "false_fn")

\* The outputs of the two graphs are compared, the graphs registered on
\* the root of the tracer, and false_fn is called on the operands.
trace_cond_register(k, c) ==
    LET flat_true_outs == c.true_fn.outs
        flat_false_outs == c.false_fn.outs
    IN  IF Len(flat_true_outs) # Len(flat_false_outs)
        THEN Throw(k, CondOpArgsMismatchError)
        ELSE IF \E i \in 1..Len(flat_true_outs) : flat_true_outs[i] # flat_false_outs[i]
        THEN Throw(k, CondOpArgsMismatchError)
        ELSE CallBack([k EXCEPT !.graphs = @ + 1], "trace_out", "false_fn")

\* return track_tensor_tree(out, ...)
trace_cond_return(k, c) == Leave(k, BranchResult(c.false_fn))

\* As cond_dense, but the branches are swapped.
cond_dense_swapped(k, c) ==
    LET mode == _get_current_dispatch_mode(k.S)
    IN  IF mode # None
        THEN Throw(Entered(k, "cond_dense"), AssertionError)
        ELSE IF c.pred
        THEN CallBack(Entered(k, "cond_dense"), "dense_false", "false_fn")
        ELSE CallBack(Entered(k, "cond_dense"), "dense_true", "true_fn")

\* cond_dense(pred, true_fn, false_fn, operands) up to the call of the
\* branch.
cond_dense(k, c) ==
    LET mode == _get_current_dispatch_mode(k.S)
    IN  IF mode # None
        THEN Throw(Entered(k, "cond_dense"), AssertionError)
        ELSE IF c.pred
        THEN CallBack(Entered(k, "cond_dense"), "dense_true", "true_fn")
        ELSE CallBack(Entered(k, "cond_dense"), "dense_false", "false_fn")

\* cond_dense returns what the branch it called returned.
cond_dense_return(k, c) ==
    Leave(k, BranchResult(IF k.at = "dense_true" THEN c.true_fn ELSE c.false_fn))

\* cond_fake_tensor_mode(pred, true_fn, false_fn, operands) up to the call
\* of true_fn.
cond_fake_tensor_mode(k, c) ==
    CallBack(Entered(k, "cond_fake_tensor_mode"), "fake_true", "true_fn")

\* The call of false_fn.
cond_fake_tensor_mode_false(k, c) == CallBack(k, "fake_false", "false_fn")

\* The outputs of the branches are compared and those of true_fn returned.
cond_fake_tensor_mode_return(k, c) ==
    LET true_outs == BranchResult(c.true_fn)
        flat_true_outs == c.true_fn.outs
        flat_false_outs == c.false_fn.outs
        zipped == IF Len(flat_true_outs) < Len(flat_false_outs)
                  THEN Len(flat_true_outs) ELSE Len(flat_false_outs)
    IN  IF Len(flat_true_outs) # Len(flat_false_outs)
        THEN Throw(k, RuntimeError)
        ELSE IF \E i \in 1..zipped : flat_true_outs[i] # flat_false_outs[i]
        THEN Throw(k, CondOpArgsMismatchError)
        ELSE Leave(k, true_outs)

\* The proxy-mode handler `inner`, and cond(pred, true_fn, false_fn,
\* operands) called again from it: the operator picks the implementation by
\* the mode that is current, the dense one if there is none.
RECURSIVE inner(_, _)
RECURSIVE cond(_, _)
cond(k, c) ==
    LET mode == _get_current_dispatch_mode(k.S)
    IN  IF mode = None THEN cond_dense(k, c)
        ELSE IF IsProxyMode(mode) THEN inner(k, c)
        ELSE cond_fake_tensor_mode(k, c)

\* inner(pred, true_fn, false_fn, operands) up to the first callback: the
\* assertion, the pop of `with _pop_mode_temporarily() as mode`, the read
\* of mode.enable_tracing, which the popped mode has only if it is a
\* ProxyTorchDispatchMode, then trace_cond or cond.
inner(k, c) ==
    LET mode == _get_current_dispatch_mode(k.S)
        p == _pop_mode(k.S, None)
        outermost == k.calls = <<>>
        k0 == [Entered(k, "inner") EXCEPT !.found = IF outermost THEN mode ELSE @]
        k1 == [k0 EXCEPT !.S = p.S, !.pushback = Append(@, p.ret),
                         !.popped = IF outermost THEN p.ret ELSE @]
    IN  IF mode = None THEN Throw(k0, AssertionError)
        ELSE IF p.err # None THEN Throw(k0, p.err)
        ELSE IF ~IsProxyMode(p.ret) THEN Throw(k1, AttributeError)
        ELSE IF c.enable_tracing THEN trace_cond(k1, c)
        ELSE cond(k1, c)

\* The mode exported_cond enters: the one detect_fake_mode finds or a new
\* FakeTensorMode.
ExportFakeMode == "fm"

\* `with fake_tensor_mode:` and `with _disable_current_modes():` of
\* exported_cond are left: the fake mode is popped and the disabled modes
\* are back.
exported_cond_exit(k) ==
    LET p == _pop_mode(k.S, None)
        S1 == _disable_current_modes_exit(p.S, k.disabled.old_modes,
                                          k.disabled.mb_proxy, k.disabled.mb_fake)
    IN  [k EXCEPT !.S = S1, !.disabled = NotDisabled]

\* exported_cond(op, pred, true_fn, false_fn, operands) up to
\* torch._dynamo.export(wrapper)(new_args): the modes are disabled, the
\* operands made a tuple, the fake mode entered and from_fun mapped over
\* the arguments, which raises RuntimeError on a Proxy; export traces
\* wrapper, which calls cond.
exported_cond(k, c) ==
    LET d == _disable_current_modes_enter(k.S)
        k1 == [Entered(k, "exported_cond") EXCEPT
                   !.S = _push_mode(d.S, ExportFakeMode, None),
                   !.disabled = [open |-> TRUE, old_modes |-> d.old_modes,
                                 mb_proxy |-> d.mb_proxy, mb_fake |-> d.mb_fake]]
    IN  IF tuple(c.operands) = "proxy"
        THEN Throw(exported_cond_exit(k1), RuntimeError)
        ELSE CallBack(k1, "export", "export")

\* The with blocks of exported_cond are left and cond is called on the
\* graphs of the branches and the tuple of the operands.
exported_cond_cond(k, c) ==
    cond(exported_cond_exit(k), [c EXCEPT !.operands = tuple(@)])

\* cond_compiled(pred, true_fn, false_fn, args)
cond_compiled(k, c) ==
    IF c.is_compiling THEN cond(Entered(k, "cond_compiled"), c)
    ELSE exported_cond(Entered(k, "cond_compiled"), c)

\* The implementations called.
Handlers == {"cond_dense", "inner", "cond_fake_tensor_mode", "cond_compiled"}

Handle(handler, k, c) ==
    CASE handler = "cond_dense" -> cond_dense(k, c)
      [] handler = "inner" -> inner(k, c)
      [] handler = "cond_compiled" -> cond_compiled(k, c)
      [] OTHER -> cond_fake_tensor_mode(k, c)

\* The callback at k.at has returned: the implementation goes on to its
\* next callback or to its end.
Resume(k, c) ==
    CASE k.at = "trace_true" -> trace_cond_false_graph(k, c)
      [] k.at = "trace_false" -> trace_cond_register(k, c)
      [] k.at = "trace_out" -> trace_cond_return(k, c)
      [] k.at \in {"dense_true", "dense_false"} -> cond_dense_return(k, c)
      [] k.at = "fake_true" -> cond_fake_tensor_mode_false(k, c)
      [] k.at = "fake_false" -> cond_fake_tensor_mode_return(k, c)
      [] k.at = "export" -> exported_cond_cond(k, c)
      [] OTHER -> k

\* The callback at k.at has raised err: the exception leaves the
\* implementation through its open with blocks.
CallbackRaised(k, err) ==
    IF k.at = "export" THEN Throw(exported_cond_exit(k), err) ELSE Throw(k, err)

\* The call run to its end, every callback returning with the mode-stack
\* state it was called in.
RECURSIVE RunCond(_, _)
RunCond(k, c) == IF k.at = "end" THEN k ELSE RunCond(Resume(k, c), c)

\* No call of cond is under way; `graphs` pairs of graphs are registered.
CondIdle(graphs) ==
    [pc |-> "idle", graphs |-> graphs, handler |-> "none",
     args |-> CondArgs(FALSE, <<>>, <<>>, "tensors", FALSE, FALSE), before |-> EmptyState,
     result |-> CondStart(EmptyState, graphs)]

InitCond ==
    /\ torch_dispatch_stack = <<>>
    /\ mode_stack_per_key = [k \in Keys |-> <<>>]
    /\ proxy_tensor_mode = None
    /\ fake_tensor_mode = None
    /\ dispatch_cache = {}
    /\ cached_ops = {}
    /\ scopes = <<>>
    /\ res = Call("init", None, None, None, <<>>, None, FALSE, EmptyState, EmptyState)
    /\ aliasing = NoCall
    /\ subclass = NoCall
    /\ cuda = NoCall
    /\ cond_call = CondIdle(0)

\* The call is at a callback, or has ended.
Stepped(handler, c, before, r) ==
    [pc |-> IF r.at = "end" THEN "done" ELSE "callback", graphs |-> r.graphs,
     handler |-> handler, args |-> c, before |-> before, result |-> r]

\* An implementation of cond is called: it runs from its first statement
\* to its first callback, or to its end if it calls none.
CondCall(handler, c) ==
    /\ cond_call.pc = "idle"
    /\ cond_call.graphs < MaxGraphs
    /\ LET r == Handle(handler, CondStart(Cur, cond_call.graphs), c)
       IN  /\ Install(r.S)
           /\ cond_call' = Stepped(handler, c, Cur, r)
    /\ UNCHANGED <<scopes, res, aliasing, subclass, cuda>>

\* The callback returns, every with block it opened being closed: the
\* implementation runs on to its next callback or to its end.
CallbackReturn ==
    /\ cond_call.pc = "callback"
    /\ scopes = <<>>
    /\ LET r == Resume([cond_call.result EXCEPT !.S = Cur], cond_call.args)
       IN  /\ Install(r.S)
           /\ cond_call' = Stepped(cond_call.handler, cond_call.args,
                                   cond_call.before, r)
    /\ UNCHANGED <<scopes, res, aliasing, subclass, cuda>>

\* The callback raises, every with block it opened being closed: the call
\* ends with the callback's exception.
CallbackRaise ==
    /\ cond_call.pc = "callback"
    /\ scopes = <<>>
    /\ LET r == CallbackRaised([cond_call.result EXCEPT !.S = Cur], ValueError)
       IN  /\ Install(r.S)
           /\ cond_call' = Stepped(cond_call.handler, cond_call.args,
                                   cond_call.before, r)
    /\ UNCHANGED <<scopes, res, aliasing, subclass, cuda>>

\* The caller goes on after the call.
CondReturn ==
    /\ cond_call.pc = "done"
    /\ cond_call' = CondIdle(cond_call.graphs)
    /\ UNCHANGED <<modeVars, aliasing, subclass, cuda>>

\* Between the calls modes are pushed and the slots set; a callback opens
\* and closes `with mode:` blocks, and returns or raises. The arguments an
\* implementation does not read are not varied: the dense and the fake
\* implementation read neither the operands' types nor enable_tracing, the
\* fake one does not read pred.
NextCond ==
    \/ \E mode \in Modes : cond_call.pc = "idle" /\ PushMode(mode, None)
    \/ \E mode \in ProxyModes : cond_call.pc = "idle" /\ SetProxyTensorMode(mode)
    \/ \E mode \in FakeModes : cond_call.pc = "idle" /\ SetFakeTensorMode(mode)
    \/ \E handler \in Handlers, pred \in BOOLEAN, t \in TrueOuts, f \in BranchOuts,
          operands \in Operands, enable_tracing \in BOOLEAN, is_compiling \in BOOLEAN :
           /\ is_compiling => handler = "cond_compiled"
           /\ handler \in {"cond_dense", "cond_fake_tensor_mode"} =>
                  (operands = "tensors" /\ enable_tracing)
           /\ handler = "cond_fake_tensor_mode" => pred
           /\ CondCall(handler,
                       CondArgs(pred, t, f, operands, enable_tracing, is_compiling))
    \/ \E mode \in Modes :
           cond_call.pc = "callback" /\ scopes = <<>> /\ Enter(mode, None)
    \/ \E raised \in BOOLEAN : cond_call.pc = "callback" /\ Exit(raised)
    \/ CallbackReturn
    \/ CallbackRaise
    \/ CondReturn

SpecCond == InitCond /\ [][NextCond]_vars

----------------------------------------------------------------------------
(* Properties of the implementations of cond. *)

\* The call of the implementation has ended, by a return or an exception.
Handled(handler) == cond_call.pc = "done" /\ cond_call.handler = handler

\* C25: when the proxy-mode handler `inner` ends, by a return after
\* tracing the branches or after calling cond again with tracing disabled,
\* or by an exception raised inside (a mismatch of the branch outputs, a
\* popped mode without enable_tracing, a failed assertion, an exception of
\* a branch), the stacks and slots are what they were when it was called,
\* the mode it popped being on top of the untagged stack again; while one
\* of its callbacks runs, with no with block of the callback open, the
\* popped modes are off the stack.
C25_InnerRestores ==
    /\ Handled("inner") =>
           /\ Stacks(Cur) = Stacks(cond_call.before)
           /\ cond_call.result.popped # None =>
                  TopOf(torch_dispatch_stack) = cond_call.result.popped
    /\ (cond_call.pc = "callback" /\ cond_call.handler = "inner" /\ scopes = <<>>) =>
           LET pushback == cond_call.result.pushback
               before == cond_call.before.stack
           IN  /\ pushback # <<>>
               /\ Len(torch_dispatch_stack) + Len(pushback) = Len(before)
               /\ \A i \in 1..Len(torch_dispatch_stack) : torch_dispatch_stack[i] = before[i]
               /\ \A i \in 1..Len(pushback) : pushback[i] = before[Len(before) + 1 - i]

\* The handler popped m1, traced two branches whose outputs differ, and was
\* left by CondOpArgsMismatchError: m1 is on top of the stack again.
C25_Witness ==
    /\ Handled("inner")
    /\ cond_call.args.enable_tracing
    /\ cond_call.result.popped = "m1"
    /\ cond_call.result.err = CondOpArgsMismatchError
    /\ cond_call.result.calls = <<"inner", "trace_cond", "true_fn", "false_fn">>
    /\ torch_dispatch_stack = <<"m2", "m1">>

\* C26: cond_dense fails its assertion whenever some mode is current (the
\* top of the untagged stack, or the proxy or the fake slot), and otherwise
\* calls one branch only, true_fn if pred holds and false_fn if not, and
\* returns what the branch returned; if the branch raised, it ends with
\* the exception of the branch and returns nothing.
C26_DenseOnly ==
    Handled("cond_dense") =>
        LET active == \/ cond_call.before.stack # <<>>
                      \/ cond_call.before.proxy # None
                      \/ cond_call.before.fake # None
            branch == IF cond_call.args.pred THEN cond_call.args.true_fn
                      ELSE cond_call.args.false_fn
        IN  /\ active =>
                /\ cond_call.result.err = AssertionError
                /\ cond_call.result.calls = <<"cond_dense">>
            /\ ~active =>
                /\ cond_call.result.calls = <<"cond_dense", branch.name>>
                /\ cond_call.result.err \in {None, ValueError}
                /\ cond_call.result.err = None =>
                       cond_call.result.ret = [from |-> branch.name, outs |-> branch.outs]
                /\ cond_call.result.err = ValueError =>
                       cond_call.result.ret = NoResult

\* With no mode on the stack and none in the slots cond_dense was called
\* with a true pred and returned the result of true_fn, the only branch
\* called.
C26_Witness ==
    /\ Handled("cond_dense")
    /\ Stacks(cond_call.before) = Stacks(EmptyState)
    /\ cond_call.args.pred
    /\ cond_call.args.true_fn.outs = <<"f32">>
    /\ cond_call.args.false_fn.outs = <<"i64">>
    /\ cond_call.result.calls = <<"cond_dense", "true_fn">>
    /\ cond_call.result.ret = [from |-> "true_fn", outs |-> <<"f32">>]

\* C28 as stated: whenever `inner` passes its assertion, the mode found
\* current not being None, the _pop_mode_temporarily that follows succeeds
\* and yields that very mode.
C28_Claimed ==
    (Handled("inner") /\ cond_call.result.found # None) =>
        cond_call.result.popped = cond_call.result.found

----------------------------------------------------------------------------
(* The functionalization implementations of cond: cond_func and            *)
(* cond_functionalize, with their mutation and alias checks.               *)

UnsupportedAliasMutationException == "UnsupportedAliasMutationException"

Exception == "Exception"

\* A traced graph: whether a node calls a mutable operator on an input,
\* whether an output is on the storage of an input, and the graph modules
\* nested in it.
Graph(mutates, aliases, children) ==
    [mutates |-> mutates, aliases |-> aliases, children |-> children]

FlatGraphs == {Graph(m, a, <<>>) : m \in BOOLEAN, a \in BOOLEAN}

Graphs == FlatGraphs \cup {Graph(FALSE, FALSE, <<Graph(TRUE, TRUE, <<>>)>>)}

\* What make_fx(branch)(*inputs) does: it returns a graph, or raises
\* UnsupportedAliasMutationException (a nested functionalized cond), or
\* raises another exception.
Traces ==
    {[kind |-> "graph", gm |-> g] : g \in Graphs}
    \cup {[kind |-> k, gm |-> Graph(FALSE, FALSE, <<>>)] : k \in {"unsupported", "error"}}

RECURSIVE _detect_input_mutation(_)
_detect_input_mutation(gm) ==
    \/ gm.mutates
    \/ \E i \in 1..Len(gm.children) : _detect_input_mutation(gm.children[i])

RECURSIVE _detect_input_alias(_)
_detect_input_alias(gm) ==
    \/ gm.aliases
    \/ \E i \in 1..Len(gm.children) : _detect_input_alias(gm.children[i])

\* The value a check returns, or the exception it lets through.
Checked(val, err) == [val |-> val, err |-> err]

\* _has_potential_branch_input_mutation(branch, inputs), `made` being what
\* its call make_fx(branch)(*inputs) gave.
_has_potential_branch_input_mutation(made) ==
    CASE made.kind = "unsupported" -> Checked(TRUE, None)
      [] made.kind = "error" -> Checked(FALSE, Exception)
      [] OTHER -> Checked(_detect_input_mutation(made.gm), None)

\* _has_potential_branch_input_alias(branch, inputs), `made` being what its
\* call make_fx(branch)(*inputs) gave.
_has_potential_branch_input_alias(made) ==
    CASE made.kind = "unsupported" -> Checked(TRUE, None)
      [] made.kind = "error" -> Checked(FALSE, Exception)
      [] OTHER -> Checked(_detect_input_alias(made.gm), None)

\* A check to make: which one, and on which branch.
Check(check, branch) == [check |-> check, branch |-> branch]

\* The arguments of a functionalization implementation: pred, the branches
\* and what functionalize makes of them (functions of their own, with the
\* outputs of the branch), the inputs, and the value of the attribute
\* enable_tracing of the ProxyTorchDispatchModes.
FuncArgs(pred, true_outs, false_outs, inputs, enable_tracing) ==
    [pred |-> pred, true_fn |-> Branch("true_fn", true_outs),
     false_fn |-> Branch("false_fn", false_outs),
     functional_true |-> Branch("functional_true", true_outs),
     functional_false |-> Branch("functional_false", false_outs),
     inputs |-> inputs, enable_tracing |-> enable_tracing]

\* As cond_func_checks, but only true_fn is checked.
cond_func_checks_true_only(c) ==
    <<Check("mutation", c.true_fn.name), Check("alias", c.true_fn.name)>>

\* The checks of cond_func in the order of its loop: for true_fn, then for
\* false_fn, the mutation check and the alias check.
cond_func_checks(c) ==
    <<Check("mutation", c.true_fn.name), Check("alias", c.true_fn.name),
      Check("mutation", c.false_fn.name), Check("alias", c.false_fn.name)>>

\* The checks of cond_functionalize in the order of its two loops: the
\* mutation check of the functionalized branches, then the alias check of
\* the branches as given.
cond_functionalize_checks(c) ==
    <<Check("mutation", c.functional_true.name),
      Check("mutation", c.functional_false.name),
      Check("alias", c.true_fn.name), Check("alias", c.false_fn.name)>>

\* A call of a functionalization implementation, under way or ended: the
\* mode-stack state, the place `at` ("check" while make_fx runs for the
\* next check, "cond" while a callback of cond runs, "end"), the checks to
\* make, the checks that returned with what make_fx gave them, whether
\* cond was called and the state of that call, the value returned and the
\* error raised.
FuncOutcome(S, at, plan, checks, called, cond_state, ret, err) ==
    [S |-> S, at |-> at, plan |-> plan, checks |-> checks, called |-> called,
     cond |-> cond_state, ret |-> ret, err |-> err]

\* The call in state S up to make_fx of its first check.
FuncStart(S, plan) ==
    FuncOutcome(S, "check", plan, <<>>, FALSE, CondStart(S, 0), NoResult, None)

\* _wrap_all_tensors_to_functional(cond_return, level)
_wrap_all_tensors_to_functional(cond_return) ==
    [from |-> cond_return.from, outs |-> cond_return.outs]

\* The call of cond made by the implementation has reached state k, a
\* callback or its end: its exception leaves the implementation, its
\* return value is wrapped and returned.
Functionalized(f, k) ==
    IF k.at # "end"
    THEN [f EXCEPT !.S = k.S, !.at = "cond", !.called = TRUE, !.cond = k]
    ELSE IF k.err # None
    THEN [f EXCEPT !.S = k.S, !.at = "end", !.called = TRUE, !.cond = k, !.err = k.err]
    ELSE [f EXCEPT !.S = k.S, !.at = "end", !.called = TRUE, !.cond = k,
                   !.ret = _wrap_all_tensors_to_functional(k.ret)]

\* The arguments of cond(unwrapped_pred, functional_true, functional_false,
\* unwrapped_inputs).
FuncCondArgs(c) ==
    [pred |-> c.pred, true_fn |-> c.functional_true, false_fn |-> c.functional_false,
     operands |-> c.inputs, enable_tracing |-> c.enable_tracing,
     is_compiling |-> FALSE]

\* make_fx gave `made` to the next check of the plan: the check lets
\* another exception than UnsupportedAliasMutationException through, or
\* returns; if it returns true the implementation raises
\* UnsupportedAliasMutationException, if false it goes on to the next
\* check, and after the last one it calls cond.
FuncChecked(f, c, made) ==
    LET i == Len(f.checks) + 1
        r == IF f.plan[i].check = "mutation"
             THEN _has_potential_branch_input_mutation(made)
             ELSE _has_potential_branch_input_alias(made)
        log == Append(f.checks, [check |-> f.plan[i].check, branch |-> f.plan[i].branch,
                                 made |-> made, val |-> r.val])
    IN  IF r.err # None THEN [f EXCEPT !.at = "end", !.err = r.err]
        ELSE IF r.val
        THEN [f EXCEPT !.at = "end", !.checks = log,
                       !.err = UnsupportedAliasMutationException]
        ELSE IF i < Len(f.plan) THEN [f EXCEPT !.checks = log]
        ELSE Functionalized([f EXCEPT !.checks = log],
                            cond(CondStart(f.S, 0), FuncCondArgs(c)))

\* cond_func(pred, true_fn, false_fn, inputs) up to make_fx of its first
\* check.
cond_func(S, c) == FuncStart(S, cond_func_checks(c))

\* cond_functionalize(interpreter, pred, true_fn, false_fn, inputs) up to
\* make_fx of its first check.
cond_functionalize(S, c) == FuncStart(S, cond_functionalize_checks(c))

\* No call of a functionalization implementation is under way.
FuncIdle ==
    [pc |-> "idle", handler |-> "none",
     args |-> FuncArgs(FALSE, <<>>, <<>>, "tensors", FALSE), before |-> EmptyState,
     result |-> FuncStart(EmptyState, <<>>)]

\* The call is at a make_fx, at a callback of cond, or has ended.
FuncStepped(handler, c, before, f) ==
    [pc |-> CASE f.at = "end" -> "done" [] f.at = "cond" -> "callback" [] OTHER -> "check",
     handler |-> handler, args |-> c, before |-> before, result |-> f]

InitFunctionalize ==
    /\ torch_dispatch_stack = <<>>
    /\ mode_stack_per_key = [k \in Keys |-> <<>>]
    /\ proxy_tensor_mode = None
    /\ fake_tensor_mode = None
    /\ dispatch_cache = {}
    /\ cached_ops = {}
    /\ scopes = <<>>
    /\ res = Call("init", None, None, None, <<>>, None, FALSE, EmptyState, EmptyState)
    /\ aliasing = NoCall
    /\ subclass = NoCall
    /\ cuda = NoCall
    /\ cond_call = FuncIdle

\* A call cond_func(pred, true_fn, false_fn, inputs).
CondFunc(c) ==
    /\ cond_call.pc = "idle"
    /\ cond_call' = FuncStepped("cond_func", c, Cur, cond_func(Cur, c))
    /\ UNCHANGED <<modeVars, aliasing, subclass, cuda>>

\* A call cond_functionalize(interpreter, pred, true_fn, false_fn, inputs).
CondFunctionalize(c) ==
    /\ cond_call.pc = "idle"
    /\ cond_call' = FuncStepped("cond_functionalize", c, Cur, cond_functionalize(Cur, c))
    /\ UNCHANGED <<modeVars, aliasing, subclass, cuda>>

\* make_fx(branch)(*inputs) of the next check returns a graph or raises:
\* the implementation runs on to the next make_fx, to the first callback of
\* cond, or to its end.
MakeFx(made) ==
    /\ cond_call.pc = "check"
    /\ LET f == FuncChecked([cond_call.result EXCEPT !.S = Cur], cond_call.args, made)
       IN  /\ Install(f.S)
           /\ cond_call' = FuncStepped(cond_call.handler, cond_call.args,
                                       cond_call.before, f)
    /\ UNCHANGED <<scopes, res, aliasing, subclass, cuda>>

\* A callback of cond returns, every with block it opened being closed.
FuncCallbackReturn ==
    /\ cond_call.pc = "callback"
    /\ scopes = <<>>
    /\ LET k == Resume([cond_call.result.cond EXCEPT !.S = Cur],
                       FuncCondArgs(cond_call.args))
           f == Functionalized(cond_call.result, k)
       IN  /\ Install(f.S)
           /\ cond_call' = FuncStepped(cond_call.handler, cond_call.args,
                                       cond_call.before, f)
    /\ UNCHANGED <<scopes, res, aliasing, subclass, cuda>>

\* A callback of cond raises, every with block it opened being closed.
FuncCallbackRaise ==
    /\ cond_call.pc = "callback"
    /\ scopes = <<>>
    /\ LET k == CallbackRaised([cond_call.result.cond EXCEPT !.S = Cur], ValueError)
           f == Functionalized(cond_call.result, k)
       IN  /\ Install(f.S)
           /\ cond_call' = FuncStepped(cond_call.handler, cond_call.args,
                                       cond_call.before, f)
    /\ UNCHANGED <<scopes, res, aliasing, subclass, cuda>>

\* The caller goes on after the call.
FuncReturn ==
    /\ cond_call.pc = "done"
    /\ cond_call' = FuncIdle
    /\ UNCHANGED <<modeVars, aliasing, subclass, cuda>>

\* Between the calls a mode is pushed and the slots are set; a callback of
\* cond opens and closes `with mode:` blocks, and returns or raises. The
\* inputs are read by trace_cond only: inputs other than a list of tensors
\* come with enable_tracing, a true pred and branches of the same outputs.
NextFunctionalize ==
    \/ \E mode \in Modes :
           cond_call.pc = "idle" /\ torch_dispatch_stack = <<>> /\ PushMode(mode, None)
    \/ \E mode \in ProxyModes : cond_call.pc = "idle" /\ SetProxyTensorMode(mode)
    \/ \E mode \in FakeModes : cond_call.pc = "idle" /\ SetFakeTensorMode(mode)
    \/ \E pred \in BOOLEAN, t \in TrueOuts, f \in BranchOuts, inputs \in Operands,
          enable_tracing \in BOOLEAN :
           /\ inputs # "tensors" => (enable_tracing /\ pred /\ f = t)
           /\ \/ CondFunc(FuncArgs(pred, t, f, inputs, enable_tracing))
              \/ CondFunctionalize(FuncArgs(pred, t, f, inputs, enable_tracing))
    \/ \E made \in Traces : MakeFx(made)
    \/ \E mode \in Modes :
           cond_call.pc = "callback" /\ scopes = <<>> /\ Enter(mode, None)
    \/ \E raised \in BOOLEAN : cond_call.pc = "callback" /\ Exit(raised)
    \/ FuncCallbackReturn
    \/ FuncCallbackRaise
    \/ FuncReturn

SpecFunctionalize == InitFunctionalize /\ [][NextFunctionalize]_vars

\* The trace shows a possible mutation of an input, or none can be made.
MayMutate(trace) ==
    \/ trace.kind = "unsupported"
    \/ trace.kind = "graph" /\
           (trace.gm.mutates \/ \E i \in 1..Len(trace.gm.children) : trace.gm.children[i].mutates)

\* The trace shows an output that may alias an input, or none can be made.
MayAlias(trace) ==
    \/ trace.kind = "unsupported"
    \/ trace.kind = "graph" /\
           (trace.gm.aliases \/ \E i \in 1..Len(trace.gm.children) : trace.gm.children[i].aliases)

\* The checks the implementation has to make before it calls cond: the
\* mutation and the alias check of both branches, cond_functionalize
\* checking the functionalized branches for mutation.
ChecksDue ==
    IF cond_call.handler = "cond_func"
    THEN {<<"mutation", "true_fn">>, <<"alias", "true_fn">>,
          <<"mutation", "false_fn">>, <<"alias", "false_fn">>}
    ELSE {<<"mutation", "functional_true">>, <<"mutation", "functional_false">>,
          <<"alias", "true_fn">>, <<"alias", "false_fn">>}

\* What make_fx gave the check shows a possible mutation or alias.
Flagged(e) == IF e.check = "mutation" THEN MayMutate(e.made) ELSE MayAlias(e.made)

\* C27: cond_func and cond_functionalize call cond only after the mutation
\* check and the alias check of both branches have all returned false; when
\* some check made returns true (also because tracing the branch raised
\* UnsupportedAliasMutationException) they raise
\* UnsupportedAliasMutationException and do not call cond; so a branch that
\* may mutate or alias an input never reaches cond, whatever mode is
\* current and whether it traces.
C27_ChecksBeforeCond ==
    cond_call.pc \in {"check", "callback", "done"} =>
        LET r == cond_call.result
        IN  /\ r.called =>
                /\ {<<r.checks[i].check, r.checks[i].branch>> : i \in 1..Len(r.checks)}
                       = ChecksDue
                /\ \A i \in 1..Len(r.checks) : ~r.checks[i].val /\ ~Flagged(r.checks[i])
            /\ (\E i \in 1..Len(r.checks) : r.checks[i].val \/ Flagged(r.checks[i])) =>
                /\ cond_call.pc = "done"
                /\ r.err = UnsupportedAliasMutationException
                /\ ~r.called
                /\ r.cond.calls = <<>>
                /\ r.ret = NoResult

\* With a tracing proxy mode on the stack cond_func found true_fn clean and
\* tracing false_fn raised UnsupportedAliasMutationException: the third
\* check returned true, the call raised and cond was not called.
C27_Witness ==
    /\ cond_call.pc = "done"
    /\ cond_call.handler = "cond_func"
    /\ cond_call.before.stack = <<"m1">>
    /\ cond_call.args.enable_tracing
    /\ Len(cond_call.result.checks) = 3
    /\ \A i \in 1..2 : cond_call.result.checks[i].made.gm = Graph(FALSE, FALSE, <<>>)
    /\ cond_call.result.checks[3] =
           [check |-> "mutation", branch |-> "false_fn", val |-> TRUE,
            made |-> [kind |-> "unsupported", gm |-> Graph(FALSE, FALSE, <<>>)]]
    /\ cond_call.result.err = UnsupportedAliasMutationException
    /\ ~cond_call.result.called

----------------------------------------------------------------------------
(* More properties of the mode stack. *)

\* A sequence in reverse order.
Reversed(s) == [i \in 1..Len(s) |-> s[Len(s) + 1 - i]]

\* The occupant of a slot as a list: empty for a free slot.
Occupant(slot) == IF slot = None THEN <<>> ELSE <<slot>>

\* C29: the list _disable_current_modes yields holds the untagged modes in
\* the order they were popped, top of the stack first (the reverse of the
\* order _get_current_dispatch_mode_stack lists them in), then the proxy
\* mode if there was one, then the fake mode if there was one; when the
\* scope is left the untagged modes are pushed back in the reverse of that
\* order, which rebuilds the stack.
C29_SnapshotOrder ==
    /\ res.op = "disable_enter" =>
           /\ res.rets = Reversed(res.before.stack) \o Occupant(res.before.proxy)
                             \o Occupant(res.before.fake)
           /\ res.rets = Reversed(SubSeq(_get_current_dispatch_mode_stack(res.before),
                                         1, Len(res.before.stack)))
                             \o Occupant(res.before.proxy) \o Occupant(res.before.fake)
    /\ res.op = "disable_exit" => torch_dispatch_stack = res.entry.stack

\* With m1 under m2 on the stack and both slots occupied the scope was
\* entered: the list yielded is m2, m1, pm, fm.
C29_Witness ==
    /\ res.op = "disable_enter"
    /\ res.before.stack = <<"m1", "m2">>
    /\ res.rets = <<"m2", "m1", "pm", "fm">>
    /\ torch_dispatch_stack = <<>>

----------------------------------------------------------------------------
(* The order of the check and the swaps in _correct_storage_aliasing. *)

\* The outputs that are no tensors.
NonTensors == {j \in 1..Len(aliasing.outs) : ~IsTensor(aliasing.outs[j])}

\* C30: _correct_storage_aliasing asserts __torch_dispatch__ on every
\* output that is a tensor before the first call of alias_storage: a call
\* with such an output lacking it, wherever it stands among the outputs,
\* fails with AliasSchemaError and leaves every output on the storage it
\* had; a call that fails with AliasSchemaError has swapped nothing; and
\* the outputs that are no tensors are passed over, a call whose outputs
\* are all tensors with __torch_dispatch__ or no tensors never failing
\* with AliasSchemaError.
C30_CheckBeforeSwap ==
    Done("fix") =>
        /\ LacksDispatch =>
               /\ aliasing.result.err = AliasSchemaError
               /\ \A j \in 1..Len(aliasing.outs) :
                      aliasing.result.outs[j].storage = aliasing.outs[j].storage
        /\ aliasing.result.err = AliasSchemaError => Swapped = {}
        /\ (\A j \in 1..Len(aliasing.outs) \ NonTensors : HasTorchDispatch(aliasing.outs[j])) =>
               aliasing.result.err # AliasSchemaError

\* Two outputs: a FunctionalTensor whose return aliases argument 1, then a
\* tensor without __torch_dispatch__ whose return aliases nothing. The call
\* failed with AliasSchemaError and output 1 is still on its own storage.
C30_Witness ==
    /\ Done("fix")
    /\ ~IsSplit
    /\ Len(aliasing.outs) = 2
    /\ aliasing.outs[1].kind = "FunctionalTensor"
    /\ aliasing.outs[2].kind = "TensorNoDispatch"
    /\ Matching(1) = {1}
    /\ Matching(2) = {}
    /\ aliasing.result.err = AliasSchemaError
    /\ aliasing.result.outs[1].storage = aliasing.outs[1].storage
    /\ aliasing.result.outs[1].storage # aliasing.args[1].storage

----------------------------------------------------------------------------
(* The failed acquisition of _pop_mode_temporarily. *)

\* The entries of a sequence.
Entries(s) == {s[i] : i \in 1..Len(s)}

\* Every entry of every stack of a state.
AllEntries(S) == Entries(S.stack) \cup UNION {Entries(S.keyed[k]) : k \in Keys}

\* C31: _pop_mode_temporarily(k) on an empty selected stack fails with
\* EmptyStackError in the pop, which stands before the try block: no body
\* runs (no scope of this call is open), every stack and both slots are as
\* before the call, and no stack holds None in place of a mode.
C31_FailedAcquire ==
    /\ (res.op = "tmp_enter" /\ Selected(res.before, res.key) = <<>>) =>
           /\ res.err = EmptyStackError
           /\ res.ret = None
           /\ Cur = res.before
           /\ \A i \in 1..Len(scopes) :
                  ~(scopes[i].kind = "tmp" /\ scopes[i].key = res.key
                      /\ scopes[i].entry = res.before)
    /\ (res.op = "tmp_enter" /\ res.err # None) => Selected(res.before, res.key) = <<>>
    /\ None \notin AllEntries(Cur)
    /\ \A i \in 1..Len(scopes) : scopes[i].kind = "tmp" => scopes[i].old # None

\* Inside the block of mode m1, _pop_mode_temporarily(K2) has failed on the
\* empty stack of K2 while the stack of K1 held m2: m1 and m2 are where
\* they were and only the block of m1 is open.
C31_Witness ==
    /\ res.op = "tmp_enter"
    /\ res.key = "K2"
    /\ res.err = EmptyStackError
    /\ torch_dispatch_stack = <<"m1">>
    /\ mode_stack_per_key["K1"] = <<"m2">>
    /\ mode_stack_per_key["K2"] = <<>>
    /\ Len(scopes) = 1
    /\ scopes[1].kind = "mode"

----------------------------------------------------------------------------
(* The order of the pairs and the frame of _correct_storage_aliasing. *)

\* The place of the pair (argument i, return j) in the input-major order.
PairNo(i, j) == (i - 1) * Len(aliasing.func.returns) + j

\* alias_storage fails on the pair: the pair matches and output j is no
\* tensor.
FailsOn(i, j) == Intersect(i, j) /\ ~IsTensor(aliasing.outs[j])

\* The arguments whose storage a call that visits the pairs input-major
\* gives to output j: the pair matches and comes before every pair
\* alias_storage fails on; none when the assertion on the outputs fails.
SwappedFrom(j) ==
    {i \in Matching(j) :
        /\ ~LacksDispatch
        /\ \A i2 \in 1..Len(aliasing.func.arguments), j2 \in 1..Len(aliasing.func.returns) :
               FailsOn(i2, j2) => PairNo(i, j) < PairNo(i2, j2)}

\* C32: _correct_storage_aliasing visits the pairs (argument, return) with
\* the arguments in the outer loop and changes outputs only. Whether the
\* call returns or fails, every input is what it was before the call; for
\* an operator that is not a splitting one, an output that matches several
\* arguments is on the storage of the one of highest index among those
\* visited (all the matching ones when the call returns), an output that
\* matches none keeps its storage, and after a failure of alias_storage
\* exactly the swaps of the pairs before the failing one have been made.
C32_InputMajor ==
    Done("fix") =>
        /\ aliasing.result.args = aliasing.args
        /\ ~IsSplit =>
               \A j \in 1..Len(aliasing.outs) :
                   /\ aliasing.result.outs[j].storage =
                          IF SwappedFrom(j) = {} THEN aliasing.outs[j].storage
                          ELSE aliasing.args[Max(SwappedFrom(j))].storage
                   /\ Matching(j) = {} =>
                          aliasing.result.outs[j].storage = aliasing.outs[j].storage
                   /\ aliasing.result.err = None => SwappedFrom(j) = Matching(j)

\* Return 1 matches arguments 1 and 2, return 2 matches none: after the
\* call output 1 is on the storage of argument 2, not of argument 1,
\* output 2 is on its own storage and both inputs are on theirs.
C32_Witness ==
    /\ Returns("fix")
    /\ ~IsSplit
    /\ Len(aliasing.args) = 2
    /\ Len(aliasing.outs) = 2
    /\ Matching(1) = {1, 2}
    /\ Matching(2) = {}
    /\ aliasing.result.outs[1].storage = aliasing.args[2].storage
    /\ aliasing.result.outs[1].storage # aliasing.args[1].storage
    /\ aliasing.result.outs[2].storage = aliasing.outs[2].storage
    /\ aliasing.result.args[1].storage = ArgTensor(1).storage
    /\ aliasing.result.args[2].storage = ArgTensor(2).storage

====
